---- MODULE Spec2Model ----
(***************************************************************************)
(* Count reconciler of SocialConnect: the PostCard component               *)
(* (src/components/PostCard.tsx), the count utilities                      *)
(* (src/lib/countUtils.ts), the Feed's handleCountUpdate                   *)
(* (src/components/Feed.tsx) and the likes/comments tables with their      *)
(* count triggers (src/supabase-setup.sql).                                *)
(*                                                                         *)
(* Every asynchronous activity of the client (a running handleLike or      *)
(* handleAddComment, a syncCounts started by the mount effect, a           *)
(* subscription callback, a checkLikeStatus) is a record in the bag        *)
(* `tasks`; its field pc is the await it is suspended at.  A backend       *)
(* request is split in the moment the database evaluates it and the moment *)
(* the response resumes the client code, so responses can overtake each    *)
(* other as they do on the network.                                        *)
(*                                                                         *)
(* SpecCounts runs updatePostCounts and validatePostCounts of countUtils.ts *)
(* against the tables while other clients change rows; SpecReset is the    *)
(* password-reset request endpoint                                         *)
(* (src/app/api/auth/password-reset/route.ts).                             *)
(*                                                                         *)
(* SpecToast is the ToastManager (src/lib/toastUtils.ts), SpecBatch is     *)
(* batchUpdatePostCounts, SpecFeed the Feed's list of posts, SpecNotif the *)
(* Notifications component and SpecConfirm the reset of a password with a  *)
(* token (src/unnamed/part_004).  Each has its own variables; the others   *)
(* stay as they start.                                                     *)
(***************************************************************************)
EXTENDS Bags, FiniteSets, Integers, Sequences, TLC

\* ------------------------------------------------------------------ bounds
\* total number of row-changing operations (local clicks, remote clients)
MaxOps == 2
\* total number of runs of the PostCard effects (mounts and re-runs)
MaxEffects == 2
\* activities in flight when a user or another client starts a new one
MaxInFlight == 3
\* backend requests that fail for reasons outside the program
MaxFaults == 1

\* the scenarios explored: many operations on one card instance, many
\* effect runs, failing backend requests, or many activities at once
\* (an effect run alone starts two activities, so every scenario has room
\* for two)
Scenarios ==
    {[ops |-> MaxOps, effects |-> 1, faults |-> 0, inflight |-> 2],
     [ops |-> 1, effects |-> MaxEffects, faults |-> 0, inflight |-> 2],
     [ops |-> 1, effects |-> 1, faults |-> MaxFaults, inflight |-> 2],
     [ops |-> 1, effects |-> 1, faults |-> 0, inflight |-> MaxInFlight]}

\* ---------------------------------------------------------------- universe
Posts == {"p1", "p2"}
Users == {"me", "other"}
\* useAuth().profile.id handed to every card as currentUserId
currentUserId == "me"
\* posts.author_id: p1 belongs to somebody else, p2 is the user's own post
author_id(p) == IF p = "p1" THEN "other" ELSE "me"
\* the count of a failed count query ({count: null, error})
null == -1

VARIABLES
    likes,          \* table likes: set of [user_id, post_id]
    comments,       \* table comments: set of [id, post_id, is_active]
    postRow,        \* table posts: stored like_count / comment_count
    notifications,  \* table notifications: rows per post and type
    posts,          \* Feed state `posts`: sequence of post records
    card,           \* per post id: the state of its PostCard
    channels,       \* channels open on the supabase client
    epoch,          \* per post id: effect runs so far (names instances)
    tasks,          \* bag of suspended asynchronous activities
    toast,          \* per post id: the last toast its card raised
    ops,            \* row-changing operations so far
    faults,         \* history: backend requests that returned an error
    limit,          \* the scenario: how many operations, effects, faults
    raced,          \* history: another client's like was inserted while a
                    \* like of handleLike was in flight for the same post
    resetTokens,    \* table password_reset_tokens
    outbox,         \* the reset e-mails handed to the e-mail service
    response,       \* per e-mail address: the last answer of the
                    \* password-reset endpoint to a request for it
    passwords,      \* per user: the password updates the auth service made
    resets,         \* bag of reset-with-token requests, running or answered
    toastManager,   \* the ToastManager singleton: its three fields
    screen,         \* bag of the toast ids react-hot-toast displays
    batch,          \* a running batchUpdatePostCounts: its locals
    postTable,      \* table posts as the Feed reads it: ids, oldest first
    fetches,        \* bag of running fetchFeed calls, CreatePost and
                    \* delete handlers and realtime callbacks of the Feed
    feedLoading,    \* Feed state `loading`
    notifTable,     \* table notifications of the current user: rows
    notifs,         \* Notifications state: notifications and unreadCount
    notifTasks      \* bag of running handlers of Notifications

vars == <<likes, comments, postRow, notifications, posts, card, channels,
          epoch, tasks, toast, ops, faults, limit, raced, resetTokens,
          outbox, response, passwords, resets, toastManager, screen, batch,
          postTable, fetches, feedLoading, notifTable, notifs, notifTasks>>

\* the state of the reset-with-token endpoint
confirmVars == <<passwords, resets>>
\* the state of the ToastManager
toastVars == <<toastManager, screen>>
\* the state of the Feed's list of posts
listVars == <<postTable, fetches, feedLoading>>
\* the state of the Notifications component
notifVars == <<notifTable, notifs, notifTasks>>
\* the state outside the cards, the count utilities and the reset request
appVars == <<confirmVars, toastVars, batch, listVars, notifVars>>

\* the state of the password-reset endpoint
resetVars == <<resetTokens, outbox, response>>
\* the state of the feed and its cards
feedVars == <<notifications, posts, card, channels, epoch, toast, raced>>

dbVars == <<likes, comments, postRow>>

\* ------------------------------------------------------------ bag helpers
Inc(b, t) == b (+) SetToBag({t})
Dec(b, t) == b (-) SetToBag({t})
Move(b, t, u) == Inc(Dec(b, t), u)
TaskSet == BagToSet(tasks)

RECURSIVE IncAll(_, _)
IncAll(b, S) ==
    IF S = {} THEN b
    ELSE LET t == CHOOSE x \in S : TRUE IN IncAll(Inc(b, t), S \ {t})

Max(a, b) == IF a >= b THEN a ELSE b

\* room for k more activities
Room(k) == BagCardinality(tasks) + k <= limit.inflight
\* the outcomes of a backend request: TRUE answered, FALSE failed
Outcomes == IF faults < limit.faults THEN BOOLEAN ELSE {TRUE}

\* ------------------------------------------------------- the tables (SQL)
LikeRow(u, p) == [user_id |-> u, post_id |-> p]
LikeRows(p) == {l \in likes : l.post_id = p}
ActiveComments(p) == {c \in comments : c.post_id = p /\ c.is_active}
\* ids the table can still hand out (every insert is one operation)
FreeCommentIds == (1..MaxOps) \ {c.id : c \in comments}

\* update_like_counts(): like_count +/- 1 on the post of the row
update_like_counts(rows, p, d) ==
    [rows EXCEPT ![p].like_count = @ + d]
\* update_post_counts(): comment_count +/- 1 on the post of the row
update_post_counts(rows, p, d) ==
    [rows EXCEPT ![p].comment_count = @ + d]

\* ---------------------------------------------------------- countUtils.ts
\* x || 0
OrZero(x) == IF x = null \/ x = 0 THEN 0 ELSE x

\* the two count queries of getPostCounts; ok = FALSE is {count:null,error}
LikeCountQuery(p, ok) == IF ok THEN Cardinality(LikeRows(p)) ELSE null
CommentCountQueryAll(p, ok) ==
    IF ok THEN Cardinality({c \in comments : c.post_id = p}) ELSE null
CommentCountQuery(p, ok) == IF ok THEN Cardinality(ActiveComments(p)) ELSE null

\* the value getPostCounts returns for the two answers
getPostCounts(likeCount, commentCount) ==
    [likeCount |-> OrZero(likeCount), commentCount |-> OrZero(commentCount)]

\* the change events the realtime feed sends for a row of post p: one per
\* open channel whose likes (resp. comments) filter matches the post
LikeEvents(chs, p) ==
    {[kind |-> "sub", post |-> p, inst |-> c.inst, chan |-> c.chan,
      pc |-> "E", clicked |-> FALSE, ok |-> TRUE, lc |-> 0, cc |-> 0,
      slc |-> 0, scc |-> 0] :
        c \in {x \in chs : x.post = p}}
CommentEventsNone(chs, p) == {}
CommentEvents(chs, p) ==
    {[kind |-> "sub", post |-> p, inst |-> c.inst, chan |-> c.chan,
      pc |-> "E", clicked |-> FALSE, ok |-> TRUE, lc |-> 0, cc |-> 0,
      slc |-> 0, scc |-> 0] :
        c \in {x \in chs : x.post = p}}

\* ------------------------------------------------------------------ tasks
\* kind: "like" handleLike, "comment" handleAddComment, "sync" syncCounts of
\*       the mount effect, "sub" subscription callback, "check"
\*       checkLikeStatus, "update" updatePostCounts, "validate"
\*       validatePostCounts
\* pc:   "W" write sent, "WR" write answered, "E" change event on its way,
\*       "L" like-count query sent, "C" comment-count query sent,
\*       "R" getPostCounts about to return, "N" notification insert sent,
\*       "Q" like-status query sent, "QR" like-status query answered,
\*       "S" select of the stored posts row sent
\* lc, cc: the answers of the two count queries; slc, scc: the stored counts
\*       validatePostCounts has read
Task(k, p, i, ch, pc) ==
    [kind |-> k, post |-> p, inst |-> i, chan |-> ch, pc |-> pc,
     clicked |-> FALSE, ok |-> TRUE, lc |-> 0, cc |-> 0, slc |-> 0,
     scc |-> 0]

\* the card instance a task's closures belong to is still on screen
Live(t) == card[t.post].mounted /\ card[t.post].inst = t.inst

\* ----------------------------------------------------------- PostCard.tsx
NoCard ==
    [mounted |-> FALSE, inst |-> 0, chan |-> 0, isLiked |-> FALSE,
     likeCount |-> 0, commentCount |-> 0, showComments |-> FALSE,
     loading |-> FALSE, countsLoading |-> FALSE]

\* the other clients whose row changes reach the cards
RemoteUsers == Users \ {currentUserId}
\* the posts the Feed holds
Shown == {posts[i].id : i \in 1..Len(posts)}
InFeed(p) == \E i \in 1..Len(posts) : posts[i].id = p
FeedEntry(p) == posts[CHOOSE i \in 1..Len(posts) : posts[i].id = p]

TotalEffects == epoch["p1"] + epoch["p2"]

\* subscribeToCountChanges: supabase.channel(`counts-${postId}`)...subscribe()
subscribeToCountChanges(chs, p, i, ch) ==
    chs \cup {[post |-> p, inst |-> i, chan |-> ch]}

\* supabase.removeChannel(subscription) in the effect's cleanup
removeChannelLeak(chs, p, ch) == chs
removeChannel(chs, p, ch) ==
    {c \in chs : ~(c.post = p /\ c.chan = ch)}

\* Feed.handleCountUpdate: map over posts, replace the counts of postId
handleCountUpdateAll(ps, p, lc, cc) ==
    [i \in 1..Len(ps) |->
        [ps[i] EXCEPT !.like_count = lc, !.comment_count = cc]]
handleCountUpdate(ps, p, lc, cc) ==
    [i \in 1..Len(ps) |->
        IF ps[i].id = p
        THEN [ps[i] EXCEPT !.like_count = lc, !.comment_count = cc]
        ELSE ps[i]]

\* the mount effect (checkLikeStatus, syncCounts) started for instance i
EffectTasksNoSync(p, i) == {Task("check", p, i, 0, "Q")}
EffectTasks(p, i) ==
    {Task("check", p, i, 0, "Q"), Task("sync", p, i, 0, "L")}

\* A PostCard for post p is rendered by the Feed: useState initialisers,
\* then both effects run.
MountCard(p) ==
    /\ InFeed(p)
    /\ ~card[p].mounted
    /\ TotalEffects < limit.effects /\ Room(2)
    /\ LET i == epoch[p] + 1 IN
        /\ card' = [card EXCEPT ![p] =
                [mounted |-> TRUE, inst |-> i, chan |-> i, isLiked |-> FALSE,
                 likeCount |-> OrZero(FeedEntry(p).like_count),
                 commentCount |-> OrZero(FeedEntry(p).comment_count),
                 showComments |-> FALSE, loading |-> FALSE,
                 countsLoading |-> TRUE]]
        /\ channels' = subscribeToCountChanges(channels, p, i, i)
        /\ tasks' = IncAll(tasks, EffectTasks(p, i))
        /\ epoch' = [epoch EXCEPT ![p] = i]
    /\ UNCHANGED <<dbVars, notifications, posts, toast, ops, faults, limit,
                   raced, resetVars,
                   appVars>>

\* The card leaves the screen: the subscription effect's cleanup runs and
\* the component state is gone.
UnmountCard(p) ==
    /\ card[p].mounted
    /\ channels' = removeChannel(channels, p, card[p].chan)
    /\ card' = [card EXCEPT ![p] = NoCard]
    /\ UNCHANGED <<dbVars, notifications, posts, epoch, tasks, toast, ops,
                   faults, limit, raced, resetVars,
                   appVars>>

\* setShowComments(!showComments): both effects have showComments among
\* their dependencies, so the cleanup runs and both effects run again.
ToggleComments(p) ==
    /\ card[p].mounted
    /\ TotalEffects < limit.effects /\ Room(2)
    /\ LET ch == epoch[p] + 1 IN
        /\ card' = [card EXCEPT ![p].showComments = ~@, ![p].chan = ch,
                                ![p].countsLoading = TRUE]
        /\ channels' = subscribeToCountChanges(
                            removeChannel(channels, p, card[p].chan),
                            p, card[p].inst, ch)
        /\ tasks' = IncAll(tasks, EffectTasks(p, card[p].inst))
        /\ epoch' = [epoch EXCEPT ![p] = ch]
    /\ UNCHANGED <<dbVars, notifications, posts, toast, ops, faults, limit,
                   raced, resetVars,
                   appVars>>

\* ---- getPostCounts, shared by syncCounts and the subscription callback
Fetching(t) ==
    t.kind \in {"like", "comment", "sync", "sub", "update", "validate"}

\* the backend answers the like-count query
ReadLikes(t) ==
    /\ Fetching(t) /\ t.pc = "L"
    /\ \E ok \in Outcomes :
        /\ tasks' = Move(tasks, t,
                [t EXCEPT !.pc = "C", !.lc = LikeCountQuery(t.post, ok)])
        /\ faults' = (IF ok THEN faults ELSE faults + 1)
    /\ UNCHANGED <<dbVars, notifications, posts, card, channels, epoch,
                   toast, ops, limit, raced, resetVars,
                   appVars>>

\* the backend answers the comment-count query
ReadComments(t) ==
    /\ Fetching(t) /\ t.pc = "C"
    /\ \E ok \in Outcomes :
        /\ tasks' = Move(tasks, t,
                [t EXCEPT !.pc = "R", !.cc = CommentCountQuery(t.post, ok)])
        /\ faults' = (IF ok THEN faults ELSE faults + 1)
    /\ UNCHANGED <<dbVars, notifications, posts, card, channels, epoch,
                   toast, ops, limit, raced, resetVars,
                   appVars>>

\* setLikeCount(counts.likeCount); setCommentCount(counts.commentCount)
\* (a state setter of a card that left the screen changes nothing)
setCountsIfFresh(cd, t, counts) ==
    IF Live(t) /\ counts.likeCount = Cardinality(LikeRows(t.post))
               /\ counts.commentCount = Cardinality(ActiveComments(t.post))
    THEN [cd EXCEPT ![t.post].likeCount = counts.likeCount,
                    ![t.post].commentCount = counts.commentCount]
    ELSE cd
setCounts(cd, t, counts) ==
    IF Live(t)
    THEN [cd EXCEPT ![t.post].likeCount = counts.likeCount,
                    ![t.post].commentCount = counts.commentCount]
    ELSE cd

\* the tail of syncCounts after `await getPostCounts`: lines 43-55
syncCountsTail(cd, t, counts) ==
    IF Live(t)
    THEN [setCounts(cd, t, counts) EXCEPT ![t.post].countsLoading = FALSE]
    ELSE cd

\* finally { setLoading(false) } of handleLike
setLoadingFalse(cd, t) ==
    IF Live(t) THEN [cd EXCEPT ![t.post].loading = FALSE] ELSE cd

\* syncCounts started by the mount effect returns
SyncDone(t) ==
    /\ t.kind = "sync" /\ t.pc = "R"
    /\ LET counts == getPostCounts(t.lc, t.cc) IN
        /\ card' = syncCountsTail(card, t, counts)
        /\ posts' = handleCountUpdate(posts, t.post, counts.likeCount,
                                      counts.commentCount)
    /\ tasks' = Dec(tasks, t)
    /\ UNCHANGED <<dbVars, notifications, channels, epoch, toast, ops,
                   faults, limit, raced, resetVars,
                   appVars>>

\* ---- checkLikeStatus
CheckRead(t) ==
    /\ t.kind = "check" /\ t.pc = "Q"
    /\ \E ok \in Outcomes :
        /\ tasks' = Move(tasks, t, [t EXCEPT !.pc = "QR",
                !.ok = (ok /\ LikeRow(currentUserId, t.post) \in likes)])
        /\ faults' = (IF ok THEN faults ELSE faults + 1)
    /\ UNCHANGED <<dbVars, notifications, posts, card, channels, epoch,
                   toast, ops, limit, raced, resetVars,
                   appVars>>

\* setIsLiked(!!data)
CheckDone(t) ==
    /\ t.kind = "check" /\ t.pc = "QR"
    /\ card' = IF Live(t) THEN [card EXCEPT ![t.post].isLiked = t.ok]
               ELSE card
    /\ tasks' = Dec(tasks, t)
    /\ UNCHANGED <<dbVars, notifications, posts, channels, epoch, toast,
                   ops, faults, limit, raced, resetVars,
                   appVars>>

\* ---- the subscription callback of subscribeToCountChanges
\* the change event reaches the client: the callback of a channel that is
\* still open starts getPostCounts, an event for a removed channel is lost
SubReceive(t) ==
    /\ t.kind = "sub" /\ t.pc = "E"
    /\ tasks' = IF [post |-> t.post, inst |-> t.inst, chan |-> t.chan]
                        \in channels
                THEN Move(tasks, t, [t EXCEPT !.pc = "L"])
                ELSE Dec(tasks, t)
    /\ UNCHANGED <<dbVars, notifications, posts, card, channels, epoch,
                   toast, ops, faults, limit, raced, resetVars,
                   appVars>>

\* onCountChange(counts): the callback PostCard passed to the subscription
onCountChange(t, counts) ==
    /\ card' = setCounts(card, t, counts)
    /\ tasks' = Inc(Dec(tasks, t), Task("check", t.post, t.inst, t.chan, "Q"))
    /\ posts' = handleCountUpdate(posts, t.post, counts.likeCount,
                                  counts.commentCount)

\* const counts = await getPostCounts(postId); onCountChange(counts)
SubDone(t) ==
    /\ t.kind = "sub" /\ t.pc = "R"
    /\ onCountChange(t, getPostCounts(t.lc, t.cc))
    /\ UNCHANGED <<dbVars, notifications, channels, epoch, toast, ops,
                   faults, limit, raced, resetVars,
                   appVars>>

\* ---- handleLike
\* the click: setLoading(true), then the delete or insert is sent
ClickLike(p) ==
    /\ card[p].mounted /\ ~card[p].loading
    /\ ops < limit.ops /\ Room(1)
    /\ card' = [card EXCEPT ![p].loading = TRUE]
    /\ tasks' = Inc(tasks, [Task("like", p, card[p].inst, 0, "W")
                                EXCEPT !.clicked = card[p].isLiked])
    /\ ops' = ops + 1
    /\ UNCHANGED <<dbVars, notifications, posts, channels, epoch, toast,
                   faults, limit, raced, resetVars,
                   appVars>>

\* the backend executes the delete (clicked) or the insert (not clicked)
LikeWrite(t) ==
    /\ t.kind = "like" /\ t.pc = "W"
    /\ LET row == LikeRow(currentUserId, t.post)
           had == row \in likes
       IN
        \/ /\ faults < limit.faults \/ (~t.clicked /\ had)
           /\ tasks' = Move(tasks, t, [t EXCEPT !.pc = "WR", !.ok = FALSE])
           /\ faults' = faults + 1
           /\ UNCHANGED dbVars
        \/ /\ t.clicked
           /\ likes' = likes \ {row}
           /\ postRow' = IF had THEN update_like_counts(postRow, t.post, -1)
                         ELSE postRow
           /\ tasks' = IncAll(Move(tasks, t, [t EXCEPT !.pc = "WR"]),
                              IF had THEN LikeEvents(channels, t.post)
                              ELSE {})
           /\ UNCHANGED <<comments, faults>>
        \/ /\ ~t.clicked /\ ~had
           /\ likes' = likes \cup {row}
           /\ postRow' = update_like_counts(postRow, t.post, 1)
           /\ tasks' = IncAll(Move(tasks, t, [t EXCEPT !.pc = "WR"]),
                              LikeEvents(channels, t.post))
           /\ UNCHANGED <<comments, faults>>
    /\ UNCHANGED <<notifications, posts, card, channels, epoch, toast, ops,
                   limit, raced, resetVars,
                   appVars>>

\* lines 145-150 / 167-172: the local update after the write, then the
\* start of syncCounts
likeLocalUpdate(cd, t) ==
    IF Live(t)
    THEN [cd EXCEPT ![t.post].isLiked = ~t.clicked,
                    ![t.post].likeCount =
                        IF t.clicked THEN Max(0, @ - 1) ELSE @ + 1,
                    ![t.post].countsLoading = TRUE]
    ELSE cd

\* lines 194-202: the catch block and finally
likeCatchClearing(cd, t) ==
    IF Live(t)
    THEN [cd EXCEPT ![t.post].isLiked = ~t.clicked,
                    ![t.post].likeCount =
                        IF t.clicked THEN @ + 1 ELSE Max(0, @ - 1),
                    ![t.post].loading = FALSE,
                    ![t.post].countsLoading = FALSE]
    ELSE cd
likeCatch(cd, t) ==
    IF Live(t)
    THEN [cd EXCEPT ![t.post].isLiked = ~t.clicked,
                    ![t.post].likeCount =
                        IF t.clicked THEN @ + 1 ELSE Max(0, @ - 1),
                    ![t.post].loading = FALSE]
    ELSE cd

\* the answer to the write resumes handleLike
LikeResume(t) ==
    /\ t.kind = "like" /\ t.pc = "WR"
    /\ IF t.ok
       THEN /\ card' = likeLocalUpdate(card, t)
            /\ tasks' = Move(tasks, t, [t EXCEPT !.pc = "L"])
            /\ UNCHANGED toast
       ELSE /\ card' = likeCatch(card, t)
            /\ tasks' = Dec(tasks, t)
            /\ toast' = [toast EXCEPT ![t.post] = "likeError"]
    /\ UNCHANGED <<dbVars, notifications, posts, channels, epoch, ops,
                   faults, limit, raced, resetVars,
                   appVars>>

\* `await syncCounts()` inside handleLike returns
LikeSynced(t) ==
    /\ t.kind = "like" /\ t.pc = "R"
    /\ LET counts == getPostCounts(t.lc, t.cc)
           synced == syncCountsTail(card, t, counts)
       IN
        /\ posts' = handleCountUpdate(posts, t.post, counts.likeCount,
                                      counts.commentCount)
        /\ IF t.clicked
           THEN /\ card' = setLoadingFalse(synced, t)
                /\ tasks' = Dec(tasks, t)
                /\ toast' = [toast EXCEPT ![t.post] = "unliked"]
           ELSE IF author_id(t.post) # currentUserId
           THEN /\ card' = synced
                /\ tasks' = Move(tasks, t, [t EXCEPT !.pc = "N"])
                /\ UNCHANGED toast
           ELSE /\ card' = setLoadingFalse(synced, t)
                /\ tasks' = Dec(tasks, t)
                /\ toast' = [toast EXCEPT ![t.post] = "liked"]
    /\ UNCHANGED <<dbVars, notifications, channels, epoch, ops, faults,
                   limit, raced, resetVars,
                   appVars>>

\* the notification insert is answered (its error is not looked at)
LikeNotifiedThrowing(t) ==
    /\ t.kind = "like" /\ t.pc = "N"
    /\ \E ok \in Outcomes :
        /\ notifications' = IF ok
                THEN [notifications EXCEPT ![t.post].like = @ + 1]
                ELSE notifications
        /\ faults' = (IF ok THEN faults ELSE faults + 1)
        /\ card' = IF ok THEN setLoadingFalse(card, t) ELSE likeCatch(card, t)
        /\ toast' = [toast EXCEPT ![t.post] =
                        IF ok THEN "liked" ELSE "likeError"]
    /\ tasks' = Dec(tasks, t)
    /\ UNCHANGED <<dbVars, posts, channels, epoch, ops, limit, raced,
                   resetVars,
                   appVars>>
LikeNotified(t) ==
    /\ t.kind = "like" /\ t.pc = "N"
    /\ \E ok \in Outcomes :
        /\ notifications' = IF ok
                THEN [notifications EXCEPT ![t.post].like = @ + 1]
                ELSE notifications
        /\ faults' = (IF ok THEN faults ELSE faults + 1)
    /\ card' = setLoadingFalse(card, t)
    /\ tasks' = Dec(tasks, t)
    /\ toast' = [toast EXCEPT ![t.post] = "liked"]
    /\ UNCHANGED <<dbVars, posts, channels, epoch, ops, limit, raced,
                   resetVars,
                   appVars>>

\* ---- handleAddComment
\* the form is submitted with a non-blank comment: the insert is sent
SubmitComment(p) ==
    /\ card[p].mounted /\ card[p].showComments
    /\ ops < limit.ops /\ Room(1)
    /\ tasks' = Inc(tasks, Task("comment", p, card[p].inst, 0, "W"))
    /\ ops' = ops + 1
    /\ UNCHANGED <<dbVars, notifications, posts, card, channels, epoch,
                   toast, faults, limit, raced, resetVars,
                   appVars>>

\* the backend executes the insert into comments
CommentWrite(t) ==
    /\ t.kind = "comment" /\ t.pc = "W"
    /\ \/ /\ faults < limit.faults
          /\ tasks' = Move(tasks, t, [t EXCEPT !.pc = "WR", !.ok = FALSE])
          /\ faults' = faults + 1
          /\ UNCHANGED dbVars
       \/ /\ FreeCommentIds # {}
          /\ LET id == CHOOSE x \in FreeCommentIds :
                            \A y \in FreeCommentIds : x <= y
             IN comments' = comments \cup
                    {[id |-> id, post_id |-> t.post, is_active |-> TRUE]}
          /\ postRow' = update_post_counts(postRow, t.post, 1)
          /\ tasks' = IncAll(Move(tasks, t, [t EXCEPT !.pc = "WR"]),
                             CommentEvents(channels, t.post))
          /\ UNCHANGED <<likes, faults>>
    /\ UNCHANGED <<notifications, posts, card, channels, epoch, toast, ops,
                   limit, raced, resetVars,
                   appVars>>

\* lines 334-339: the local update after the insert, then the start of
\* syncCounts
commentLocalUpdate(cd, t) ==
    IF Live(t)
    THEN [cd EXCEPT ![t.post].commentCount = @ + 1,
                    ![t.post].countsLoading = TRUE]
    ELSE cd

\* the answer to the insert resumes handleAddComment
CommentResume(t) ==
    /\ t.kind = "comment" /\ t.pc = "WR"
    /\ IF t.ok
       THEN /\ card' = commentLocalUpdate(card, t)
            /\ tasks' = Move(tasks, t, [t EXCEPT !.pc = "L"])
            /\ UNCHANGED toast
       ELSE /\ tasks' = Dec(tasks, t)
            /\ toast' = [toast EXCEPT ![t.post] = "commentError"]
            /\ UNCHANGED card
    /\ UNCHANGED <<dbVars, notifications, posts, channels, epoch, ops,
                   faults, limit, raced, resetVars,
                   appVars>>

\* `await syncCounts()` inside handleAddComment returns
CommentSynced(t) ==
    /\ t.kind = "comment" /\ t.pc = "R"
    /\ LET counts == getPostCounts(t.lc, t.cc) IN
        /\ card' = syncCountsTail(card, t, counts)
        /\ posts' = handleCountUpdate(posts, t.post, counts.likeCount,
                                      counts.commentCount)
    /\ IF author_id(t.post) # currentUserId
       THEN /\ tasks' = Move(tasks, t, [t EXCEPT !.pc = "N"])
            /\ UNCHANGED toast
       ELSE /\ tasks' = Dec(tasks, t)
            /\ toast' = [toast EXCEPT ![t.post] = "commented"]
    /\ UNCHANGED <<dbVars, notifications, channels, epoch, ops, faults,
                   limit, raced, resetVars,
                   appVars>>

\* the notification insert is answered (its error is not looked at)
CommentNotified(t) ==
    /\ t.kind = "comment" /\ t.pc = "N"
    /\ \E ok \in Outcomes :
        /\ notifications' = IF ok
                THEN [notifications EXCEPT ![t.post].comment = @ + 1]
                ELSE notifications
        /\ faults' = (IF ok THEN faults ELSE faults + 1)
    /\ tasks' = Dec(tasks, t)
    /\ toast' = [toast EXCEPT ![t.post] = "commented"]
    /\ UNCHANGED <<dbVars, posts, card, channels, epoch, ops, limit, raced,
                   resetVars,
                   appVars>>

\* ---- other clients (and other sessions of the same user)
RemoteLike(u, p) ==
    /\ ops < limit.ops /\ Room(1)
    /\ LikeRow(u, p) \notin likes
    /\ likes' = likes \cup {LikeRow(u, p)}
    /\ postRow' = update_like_counts(postRow, p, 1)
    /\ tasks' = IncAll(tasks, LikeEvents(channels, p))
    /\ ops' = ops + 1
    /\ raced' = (raced \/ \E t \in TaskSet :
                    t.kind = "like" /\ t.post = p /\ ~t.clicked /\ Live(t))
    /\ UNCHANGED <<comments, notifications, posts, card, channels, epoch,
                   toast, faults, limit, resetVars,
                   appVars>>

RemoteUnlike(u, p) ==
    /\ ops < limit.ops /\ Room(1)
    /\ LikeRow(u, p) \in likes
    /\ likes' = likes \ {LikeRow(u, p)}
    /\ postRow' = update_like_counts(postRow, p, -1)
    /\ tasks' = IncAll(tasks, LikeEvents(channels, p))
    /\ ops' = ops + 1
    /\ UNCHANGED <<comments, notifications, posts, card, channels, epoch,
                   toast, faults, limit, raced, resetVars,
                   appVars>>

RemoteComment(p) ==
    /\ ops < limit.ops /\ Room(1)
    /\ FreeCommentIds # {}
    /\ LET id == CHOOSE x \in FreeCommentIds : \A y \in FreeCommentIds : x <= y
       IN comments' = comments \cup
                {[id |-> id, post_id |-> p, is_active |-> TRUE]}
    /\ postRow' = update_post_counts(postRow, p, 1)
    /\ tasks' = IncAll(tasks, CommentEvents(channels, p))
    /\ ops' = ops + 1
    /\ UNCHANGED <<likes, notifications, posts, card, channels, epoch,
                   toast, faults, limit, raced, resetVars,
                   appVars>>

RemoteDeleteComment(c) ==
    /\ ops < limit.ops /\ Room(1)
    /\ c \in comments
    /\ comments' = comments \ {c}
    /\ postRow' = update_post_counts(postRow, c.post_id, -1)
    /\ tasks' = IncAll(tasks, CommentEvents(channels, c.post_id))
    /\ ops' = ops + 1
    /\ UNCHANGED <<likes, notifications, posts, card, channels, epoch,
                   toast, faults, limit, raced, resetVars,
                   appVars>>

\* ---- updatePostCounts and validatePostCounts (countUtils.ts), called for a
\* post while other clients change its rows (Room(2): one call at a time,
\* the other clients' operations interleave with it)
\* updatePostCounts(postId) is called: getPostCounts starts
updatePostCounts(p) ==
    /\ Room(2)
    /\ tasks' = Inc(tasks, Task("update", p, 0, 0, "L"))
    /\ UNCHANGED <<dbVars, feedVars, ops, faults, limit, resetVars,
                   appVars>>

\* the backend executes update posts set like_count, comment_count with the
\* pair getPostCounts returned; an error is logged, the pair is returned
UpdateWrite(t) ==
    /\ t.kind = "update" /\ t.pc = "R"
    /\ LET counts == getPostCounts(t.lc, t.cc) IN
        \E ok \in Outcomes :
            /\ postRow' = IF ok
                    THEN [postRow EXCEPT ![t.post] =
                            [like_count |-> counts.likeCount,
                             comment_count |-> counts.commentCount]]
                    ELSE postRow
            /\ faults' = (IF ok THEN faults ELSE faults + 1)
    /\ tasks' = Dec(tasks, t)
    /\ UNCHANGED <<likes, comments, feedVars, ops, limit, resetVars,
                   appVars>>

\* validatePostCounts(postId) is called: the select of the posts row is sent
validatePostCounts(p) ==
    /\ Room(2)
    /\ tasks' = Inc(tasks, Task("validate", p, 0, 0, "S"))
    /\ UNCHANGED <<dbVars, feedVars, ops, faults, limit, resetVars,
                   appVars>>

\* the backend answers the select: stored = {like_count || 0,
\* comment_count || 0} and getPostCounts starts, or postError is thrown and
\* the catch block returns its all-zero, isValid: false result
ValidateRead(t) ==
    /\ t.kind = "validate" /\ t.pc = "S"
    /\ \E ok \in Outcomes :
        /\ tasks' = IF ok
                THEN Move(tasks, t,
                        [t EXCEPT !.pc = "L",
                                  !.slc = OrZero(postRow[t.post].like_count),
                                  !.scc = OrZero(postRow[t.post].comment_count)])
                ELSE Dec(tasks, t)
        /\ faults' = (IF ok THEN faults ELSE faults + 1)
    /\ UNCHANGED <<dbVars, feedVars, ops, limit, resetVars,
                   appVars>>

Abs(x) == IF x < 0 THEN 0 - x ELSE x

\* the value validatePostCounts returns after `await getPostCounts`
validation(t) ==
    LET actual == getPostCounts(t.lc, t.cc)
        difference == [likeCount |-> Abs(t.slc - actual.likeCount),
                        commentCount |-> Abs(t.scc - actual.commentCount)]
    IN [isValid |-> difference.likeCount = 0
                        /\ difference.commentCount = 0,
        stored |-> [likeCount |-> t.slc, commentCount |-> t.scc],
        actual |-> actual,
        difference |-> difference]

\* validatePostCounts returns validation(t) to its caller
ValidateDone(t) ==
    /\ t.kind = "validate" /\ t.pc = "R"
    /\ tasks' = Dec(tasks, t)
    /\ UNCHANGED <<dbVars, feedVars, ops, faults, limit, resetVars,
                   appVars>>

\* ------------------------------------ app/api/auth/password-reset/route.ts
\* reset tokens the endpoint may issue
MaxTokens == 2

\* e-mail addresses are strings over these characters (" " is white space)
\* table profiles: the registered accounts
profiles ==
    {[id |-> "me", email |-> <<"m", "@", "x", ".", "y">>],
     [id |-> "other", email |-> <<"o", "@", "x", ".", "y">>]}
\* a request body that is not JSON: request.json() throws
NotJson == <<"{">>
\* the request bodies tried: not JSON, no e-mail, three malformed
\* addresses, two registered addresses and one that is not registered
Requests ==
    {NotJson, <<>>, <<"m", "x", ".", "y">>, <<"m", "@", "x">>,
     <<"m", " ", "@", "x", ".", "y">>, <<"n", "@", "x", ".", "y">>}
        \cup {p.email : p \in profiles}

\* /^[^\s@]+@[^\s@]+\.[^\s@]+$/.test(email)
emailRegex(e) ==
    \E i \in 1..Len(e), j \in 1..Len(e) :
        /\ 1 < i /\ i + 1 < j /\ j < Len(e)
        /\ e[i] = "@" /\ e[j] = "."
        /\ \A k \in 1..Len(e) : e[k] # " " /\ (e[k] = "@" => k = i)

\* SHA-256 of the token, in hex
sha256(token) == <<"sha256", token>>
\* NextResponse.json(body, {status}); the status defaults to 200
json(status, body) == [status |-> status, body |-> body]
NoResponse == json(0, "none")
IfExists ==
    "If an account with this email exists, password reset instructions have been sent."
Sent ==
    "Password reset instructions sent to your email. Please check your inbox."

\* POST /api/auth/password-reset with request body r; pOk, tOk, mOk: the
\* profiles query, the token insert and the e-mail service succeed
POST(r) ==
    \/ /\ r = NotJson
       /\ response' = [response EXCEPT ![r] =
                json(500, "Internal server error. Please try again.")]
       /\ UNCHANGED <<resetTokens, outbox>>
    \/ /\ r = <<>>
       /\ response' = [response EXCEPT ![r] = json(400, "Email is required")]
       /\ UNCHANGED <<resetTokens, outbox>>
    \/ /\ r # NotJson /\ r # <<>> /\ ~emailRegex(r)
       /\ response' = [response EXCEPT ![r] =
                json(400, "Invalid email format")]
       /\ UNCHANGED <<resetTokens, outbox>>
    \/ /\ r # NotJson /\ emailRegex(r)
       /\ Cardinality(resetTokens) < MaxTokens
       /\ \E pOk \in BOOLEAN, tOk \in BOOLEAN, mOk \in BOOLEAN :
            LET found == {p \in profiles : p.email = r}
                token == Cardinality(resetTokens) + 1
            IN IF ~pOk \/ found = {}
               THEN /\ response' = [response EXCEPT ![r] = json(200, IfExists)]
                    /\ UNCHANGED <<resetTokens, outbox>>
               ELSE IF ~tOk
               THEN /\ response' = [response EXCEPT ![r] = json(500,
                        "Failed to process password reset request. Please try again.")]
                    /\ UNCHANGED <<resetTokens, outbox>>
               ELSE LET profile == CHOOSE p \in found : TRUE IN
                    /\ resetTokens' = resetTokens \cup
                            {[user_id |-> profile.id,
                              token_hash |-> sha256(token), used |-> FALSE,
                              expired |-> FALSE]}
                    /\ outbox' = IF mOk
                                  THEN outbox \cup {[to |-> r, token |-> token]}
                                  ELSE outbox
                    /\ response' = [response EXCEPT ![r] = json(200, Sent)]
    /\ UNCHANGED <<dbVars, feedVars, tasks, ops, faults, limit, appVars>>

\* no request has reached the password-reset endpoint
ResetIdle ==
    /\ resetTokens = {}
    /\ outbox = {}
    /\ response = [r \in Requests |-> NoResponse]

\* nothing runs outside the cards, the count utilities and the reset
\* request
AppIdle ==
    /\ passwords = [u \in Users |-> 0]
    /\ resets = EmptyBag
    /\ toastManager = [activeToasts |-> {}, toastQueue |-> <<>>,
                       isProcessing |-> FALSE]
    /\ screen = EmptyBag
    /\ batch = [pc |-> "idle"]
    /\ postTable = <<>>
    /\ fetches = EmptyBag
    /\ feedLoading = TRUE
    /\ notifTable = {}
    /\ notifs = [notifications |-> <<>>, unreadCount |-> 0,
                 loading |-> TRUE]
    /\ notifTasks = EmptyBag

\* no card is on screen
FeedIdle ==
    /\ notifications = [p \in Posts |-> [like |-> 0, comment |-> 0]]
    /\ posts = <<[id |-> "p1", like_count |-> postRow["p1"].like_count,
                  comment_count |-> 0],
                 [id |-> "p2", like_count |-> 0, comment_count |-> 0]>>
    /\ card = [p \in Posts |-> NoCard]
    /\ channels = {}
    /\ epoch = [p \in Posts |-> 0]
    /\ toast = [p \in Posts |-> "none"]
    /\ raced = FALSE

Init ==
    /\ likes \in {{}, {LikeRow("other", "p1")},
                  {LikeRow("other", "p1"), LikeRow("me", "p1")}}
    /\ comments = {}
    /\ postRow = [p \in Posts |->
            [like_count |-> Cardinality(LikeRows(p)), comment_count |-> 0]]
    /\ notifications = [p \in Posts |-> [like |-> 0, comment |-> 0]]
    /\ posts = <<[id |-> "p1", like_count |-> postRow["p1"].like_count,
                  comment_count |-> 0],
                 [id |-> "p2", like_count |-> 0, comment_count |-> 0]>>
    /\ card = [p \in Posts |-> NoCard]
    /\ channels = {}
    /\ epoch = [p \in Posts |-> 0]
    /\ tasks = EmptyBag
    /\ toast = [p \in Posts |-> "none"]
    /\ ops = 0
    /\ faults = 0
    /\ limit \in Scenarios
    /\ raced = FALSE
    /\ ResetIdle
    /\ AppIdle

Next ==
    \/ \E p \in Posts : MountCard(p)
    \/ \E p \in Posts : UnmountCard(p)
    \/ \E p \in Posts : ToggleComments(p)
    \/ \E p \in Posts : ClickLike(p)
    \/ \E p \in Posts : SubmitComment(p)
    \/ \E u \in RemoteUsers, p \in Shown : RemoteLike(u, p)
    \/ \E u \in RemoteUsers, p \in Shown : RemoteUnlike(u, p)
    \/ \E p \in Shown : RemoteComment(p)
    \/ \E c \in comments : RemoteDeleteComment(c)
    \/ \E t \in TaskSet : ReadLikes(t)
    \/ \E t \in TaskSet : ReadComments(t)
    \/ \E t \in TaskSet : SyncDone(t)
    \/ \E t \in TaskSet : CheckRead(t)
    \/ \E t \in TaskSet : CheckDone(t)
    \/ \E t \in TaskSet : SubReceive(t)
    \/ \E t \in TaskSet : SubDone(t)
    \/ \E t \in TaskSet : LikeWrite(t)
    \/ \E t \in TaskSet : LikeResume(t)
    \/ \E t \in TaskSet : LikeSynced(t)
    \/ \E t \in TaskSet : LikeNotified(t)
    \/ \E t \in TaskSet : CommentWrite(t)
    \/ \E t \in TaskSet : CommentResume(t)
    \/ \E t \in TaskSet : CommentSynced(t)
    \/ \E t \in TaskSet : CommentNotified(t)

Spec == Init /\ [][Next]_vars

\* ---- the count utilities against the tables: any rows of two posts, among
\* them an inactive comment, with the stored counts the triggers left (they
\* count every inserted row)
CountsLimit ==
    [ops |-> 1, effects |-> 0, faults |-> MaxFaults, inflight |-> 2]

InitCounts ==
    /\ likes \in SUBSET {LikeRow("me", "p1"), LikeRow("other", "p1"),
                         LikeRow("other", "p2")}
    /\ comments \in SUBSET
            {[id |-> MaxOps + 1, post_id |-> "p1", is_active |-> FALSE],
             [id |-> MaxOps + 2, post_id |-> "p2", is_active |-> TRUE]}
    /\ postRow = [p \in Posts |->
            [like_count |-> Cardinality(LikeRows(p)),
             comment_count |->
                Cardinality({c \in comments : c.post_id = p})]]
    /\ FeedIdle
    /\ tasks = EmptyBag
    /\ ops = 0
    /\ faults = 0
    /\ limit = CountsLimit
    /\ ResetIdle
    /\ AppIdle

NextCounts ==
    \/ \E p \in Posts : updatePostCounts(p)
    \/ \E p \in Posts : validatePostCounts(p)
    \/ \E t \in TaskSet : ReadLikes(t)
    \/ \E t \in TaskSet : ReadComments(t)
    \/ \E t \in TaskSet : UpdateWrite(t)
    \/ \E t \in TaskSet : ValidateRead(t)
    \/ \E t \in TaskSet : ValidateDone(t)
    \/ \E u \in Users, p \in Posts : RemoteLike(u, p)
    \/ \E u \in Users, p \in Posts : RemoteUnlike(u, p)
    \/ \E p \in Posts : RemoteComment(p)
    \/ \E c \in comments : RemoteDeleteComment(c)

SpecCounts == InitCounts /\ [][NextCounts]_vars

\* ---- the password-reset endpoint
InitReset ==
    /\ likes = {}
    /\ comments = {}
    /\ postRow = [p \in Posts |-> [like_count |-> 0, comment_count |-> 0]]
    /\ FeedIdle
    /\ tasks = EmptyBag
    /\ ops = 0
    /\ faults = 0
    /\ limit = CountsLimit
    /\ ResetIdle
    /\ AppIdle

NextReset == \E r \in Requests : POST(r)

SpecReset == InitReset /\ [][NextReset]_vars

\* ======================================================== the properties
Settled == tasks = EmptyBag
Mounted == {p \in Posts : card[p].mounted}
\* the step takes task t out of the bag (it returns or moves on)
Leaves(t) == CopiesIn(t, tasks') < CopiesIn(t, tasks)
\* the subscription of a callback has been removed
Stale(t) ==
    [post |-> t.post, inst |-> t.inst, chan |-> t.chan] \notin channels

\* C1: once nothing is in flight after like/unlike actions, the like count
\* a card displays equals the number of Like rows of its post.
C1_LikeCountMatchesRows ==
    \A p \in Mounted :
        (Settled /\ toast[p] \in {"liked", "unliked", "likeError"})
            => card[p].likeCount = Cardinality(LikeRows(p))

\* C2: when the write of handleLike fails, the handler leaves the displayed
\* like count as it was (it has not touched the count before its catch
\* block runs, so the count before the catch is the count of the click as
\* far as the handler is concerned).
C2_FailedWriteKeepsCount ==
    [][\A t \in TaskSet :
        (t.kind = "like" /\ t.pc = "WR" /\ ~t.ok /\ Live(t) /\ Leaves(t))
            => card'[t.post].likeCount = card[t.post].likeCount]_vars

\* C3: a getPostCounts whose like (comment) query failed leaves the
\* displayed like (comment) count as it was.
C3_FailedFetchKeepsCounts ==
    [][\A t \in TaskSet :
        (Fetching(t) /\ t.pc = "R" /\ Live(t) /\ Leaves(t))
            => /\ t.lc = null =>
                    card'[t.post].likeCount = card[t.post].likeCount
               /\ t.cc = null =>
                    card'[t.post].commentCount = card[t.post].commentCount
      ]_vars

\* C4: a callback of a subscription whose channel has been removed changes
\* neither the displayed counts nor the parent's posts.
C4_NoUpdateAfterRemoveChannel ==
    [][\A t \in TaskSet :
        (t.kind = "sub" /\ t.pc = "R" /\ Stale(t) /\ Leaves(t))
            => /\ card'[t.post].likeCount = card[t.post].likeCount
               /\ card'[t.post].commentCount = card[t.post].commentCount
               /\ posts' = posts]_vars

\* C5: with no request failing, once nothing is in flight every card
\* displays the authoritative counts, whatever the order of the responses.
C5_IdleCountsAuthoritative ==
    \A p \in Mounted :
        (Settled /\ faults = 0)
            => /\ card[p].likeCount = Cardinality(LikeRows(p))
               /\ card[p].commentCount = Cardinality(ActiveComments(p))

\* C6: the post started without likes, the user liked it and another client
\* liked it while that like was in flight (these are the two operations):
\* once nothing is in flight the card displays 2.
C6_BothLikesShown ==
    (/\ Settled /\ faults = 0 /\ ops = 2 /\ raced
     /\ card["p1"].mounted /\ toast["p1"] = "liked"
     /\ LikeRows("p1") = {LikeRow("me", "p1"), LikeRow("other", "p1")}
     /\ LikeRows("p2") = {} /\ comments = {})
        => card["p1"].likeCount = 2

\* C7: the response of a syncCounts whose card has left the screen changes
\* neither card state nor the parent's posts.
C7_LateSyncDiscarded ==
    [][\A t \in TaskSet :
        (t.kind \in {"sync", "like", "comment"} /\ t.pc = "R" /\ ~Live(t)
         /\ Leaves(t))
            => card' = card /\ posts' = posts]_vars

\* C8: the step that sends the write of handleLike / handleAddComment has
\* already changed the displayed count by the optimistic delta.
C8_OptimisticBeforeWrite ==
    [][\A p \in Mounted :
        LET like == [Task("like", p, card[p].inst, 0, "W")
                        EXCEPT !.clicked = card[p].isLiked]
            comment == Task("comment", p, card[p].inst, 0, "W")
        IN /\ CopiesIn(like, tasks') > CopiesIn(like, tasks) =>
                card'[p].likeCount =
                    IF card[p].isLiked THEN Max(0, card[p].likeCount - 1)
                    ELSE card[p].likeCount + 1
           /\ CopiesIn(comment, tasks') > CopiesIn(comment, tasks) =>
                card'[p].commentCount = card[p].commentCount + 1]_vars

\* C9: a card that is on screen has exactly the channel its last effect run
\* opened, a card that is not has none, so there are never more open count
\* channels than mounted cards.
C9_OneSubscriptionPerCard ==
    /\ \A p \in Posts :
        {c \in channels : c.post = p} =
            IF card[p].mounted
            THEN {[post |-> p, inst |-> card[p].inst, chan |-> card[p].chan]}
            ELSE {}
    /\ Cardinality(channels) <= Cardinality(Mounted)

\* a card whose effects ran again after showComments changed: the earlier
\* subscription has been replaced by the one open channel
C9_Witness ==
    \E p \in Posts :
        /\ card[p].mounted /\ card[p].showComments
        /\ card[p].chan > card[p].inst
        /\ channels = {[post |-> p, inst |-> card[p].inst,
                        chan |-> card[p].chan]}

\* C10: a row change of a post sends one event to every channel open on the
\* post; an event received on an open channel starts one getPostCounts;
\* when that returns, onCountChange is invoked once with the returned pair
\* (the card and the parent show the pair, one checkLikeStatus starts).
C10_EventRefetchesAndReports ==
    [][/\ \A c \in channels :
            LET e == [Task("sub", c.post, c.inst, c.chan, "E") EXCEPT !.ok = TRUE]
            IN ({l \in likes' : l.post_id = c.post} # LikeRows(c.post)
                \/ {r \in comments' : r.post_id = c.post}
                        # {r \in comments : r.post_id = c.post})
                => CopiesIn(e, tasks') = CopiesIn(e, tasks) + 1
       /\ \A t \in TaskSet :
            (t.kind = "sub" /\ t.pc = "E" /\ ~Stale(t) /\ Leaves(t))
                => LET f == [t EXCEPT !.pc = "L"]
                   IN CopiesIn(f, tasks') = CopiesIn(f, tasks) + 1
       /\ \A t \in TaskSet :
            (t.kind = "sub" /\ t.pc = "R" /\ Leaves(t))
                => LET pair == getPostCounts(t.lc, t.cc)
                       k == Task("check", t.post, t.inst, t.chan, "Q")
                   IN /\ CopiesIn(k, tasks') = CopiesIn(k, tasks) + 1
                      /\ \A i \in 1..Len(posts') :
                            posts'[i].id = t.post =>
                                /\ posts'[i].like_count = pair.likeCount
                                /\ posts'[i].comment_count = pair.commentCount
                      /\ Live(t) =>
                            /\ card'[t.post].likeCount = pair.likeCount
                            /\ card'[t.post].commentCount = pair.commentCount
      ]_vars

\* a subscription callback has reported counts read after a row change
C10_Witness ==
    \E t \in TaskSet :
        /\ t.kind = "check" /\ t.chan > 0 /\ Live(t)
        /\ ops > 0
        /\ card[t.post].likeCount = Cardinality(LikeRows(t.post))
        /\ card[t.post].commentCount = Cardinality(ActiveComments(t.post))
        /\ card[t.post].likeCount + card[t.post].commentCount > 0

\* the step puts task t into the bag
Enters(t) == CopiesIn(t, tasks') > CopiesIn(t, tasks)

\* C11: a like-count query that succeeds answers the number of Like rows of
\* the post (the rows of other posts are not counted), a comment-count query
\* that succeeds answers the number of Comment rows of the post that are
\* active (the rows of other posts and the inactive rows are not counted),
\* and getPostCounts returns the two answers as likeCount and commentCount.
C11_CountsOwnActiveRows ==
    [][\A t \in BagToSet(tasks') :
        LET otherLikes == {l \in likes : l.post_id # t.post}
            otherComments == {c \in comments : c.post_id # t.post}
            inactive == {c \in comments : c.post_id = t.post /\ ~c.is_active}
        IN /\ (t.pc = "C" /\ Enters(t) /\ t.lc # null)
                => t.lc = Cardinality(likes) - Cardinality(otherLikes)
           /\ (t.pc = "R" /\ Enters(t) /\ t.cc # null)
                => t.cc = Cardinality(comments) - Cardinality(otherComments)
                            - Cardinality(inactive)
           /\ (t.pc = "R" /\ t.lc # null /\ t.cc # null)
                => getPostCounts(t.lc, t.cc) =
                        [likeCount |-> t.lc, commentCount |-> t.cc]]_vars

\* getPostCounts is about to return 2 likes and 1 comment for p1 while p1
\* also has an inactive comment and p2 has a like and a comment
C11_Witness ==
    \E t \in TaskSet :
        /\ t.pc = "R" /\ t.post = "p1" /\ t.lc = 2 /\ t.cc = 1
        /\ Cardinality(LikeRows("p1")) = 2
        /\ LikeRows("p2") # {}
        /\ \E c \in comments : c.post_id = "p1" /\ ~c.is_active
        /\ \E c \in comments : c.post_id = "p1" /\ c.is_active
        /\ \E c \in comments : c.post_id = "p2"

\* the step is an operation on post p or on its card: one of p's activities
\* starts, moves on or returns, a row of p changes, or p's card changes
Touches(p) ==
    \/ \E t \in TaskSet \cup BagToSet(tasks') :
            t.post = p /\ CopiesIn(t, tasks') # CopiesIn(t, tasks)
    \/ {l \in likes' : l.post_id = p} # LikeRows(p)
    \/ {c \in comments' : c.post_id = p} # {c \in comments : c.post_id = p}
    \/ card'[p] # card[p]

\* C12: a step that is an operation on one post or its card (like, unlike,
\* comment, count fetch, subscription event, error, mount, unmount) leaves
\* the card of every other post, its toast, its channel and its entry in
\* the feed's posts as they were.
C12_CardsIndependent ==
    [][\A p \in Posts, q \in Posts :
        (p # q /\ Touches(p))
            => /\ card'[q] = card[q]
               /\ toast'[q] = toast[q]
               /\ {c \in channels' : c.post = q} = {c \in channels : c.post = q}
               /\ Len(posts') = Len(posts)
               /\ \A i \in 1..Len(posts) :
                    posts[i].id = q => posts'[i] = posts[i]]_vars

\* both cards are on screen, the user has liked p1: p1's card and entry show
\* the like, p2's card and entry are as they were mounted
C12_Witness ==
    /\ Settled /\ card["p1"].mounted /\ card["p2"].mounted
    /\ toast["p1"] = "liked" /\ toast["p2"] = "none"
    /\ card["p1"].isLiked /\ card["p1"].likeCount > 0
    /\ FeedEntry("p1").like_count = card["p1"].likeCount
    /\ ~card["p2"].isLiked /\ card["p2"].likeCount = 0
    /\ FeedEntry("p2").like_count = 0

\* C13: once nothing is in flight after like/unlike actions, a card's isLiked
\* is true exactly when the likes table holds the row of the current user
\* and the card's post.
C13_LikedIffRowExists ==
    \A p \in Mounted :
        (Settled /\ toast[p] \in {"liked", "unliked", "likeError"})
            => (card[p].isLiked <=> LikeRow(currentUserId, p) \in likes)

\* C14: once no updatePostCounts is in flight (no request has failed and no
\* comment row is inactive, which the triggers do not follow), the stored
\* like_count and
\* comment_count of every post equal the number of its Like rows and of its
\* active Comment rows.
C14_StoredEqualsDerived ==
    (Settled /\ faults = 0 /\ \A c \in comments : c.is_active)
        => \A p \in Posts :
            /\ postRow[p].like_count = Cardinality(LikeRows(p))
            /\ postRow[p].comment_count = Cardinality(ActiveComments(p))

\* the step displays the pair a getPostCounts of task t returned: on the
\* card, if it is still on screen, and in the parent's posts
Displays(t) ==
    LET pair == getPostCounts(t.lc, t.cc) IN
    /\ Live(t) =>
            /\ card'[t.post].likeCount = pair.likeCount
            /\ card'[t.post].commentCount = pair.commentCount
    /\ \A i \in 1..Len(posts') :
            posts'[i].id = t.post =>
                /\ posts'[i].like_count = pair.likeCount
                /\ posts'[i].comment_count = pair.commentCount

\* C15: a fetch of the counts starts when a card mounts, when a successful
\* like, unlike or comment write resumes its handler, and when a change
\* event reaches an open subscription; the pair each of these fetches
\* returns is displayed; and a handler whose write succeeded finishes only
\* after its fetch has returned.
C15_SyncOnMountWriteEvent ==
    [][/\ \A p \in Posts :
            (~card[p].mounted /\ card'[p].mounted)
                => Enters(Task("sync", p, card'[p].inst, 0, "L"))
       /\ \A t \in TaskSet :
            /\ (t.kind \in {"like", "comment"} /\ t.pc = "WR" /\ t.ok
                /\ Leaves(t))
                    => Enters([t EXCEPT !.pc = "L"])
            /\ (t.kind = "sub" /\ t.pc = "E" /\ ~Stale(t) /\ Leaves(t))
                    => Enters([t EXCEPT !.pc = "L"])
            /\ (t.kind \in {"sync", "like", "comment", "sub"} /\ t.pc = "R"
                /\ Leaves(t))
                    => Displays(t)
            /\ (t.kind \in {"like", "comment"} /\ t.ok /\ Leaves(t)
                /\ ~\E u \in BagToSet(tasks') :
                        u.kind = t.kind /\ u.post = t.post /\ Enters(u))
                    => t.pc \in {"R", "N"}]_vars

\* a like or comment handler has finished after its write succeeded and the
\* card shows the counts its syncCounts fetched
C15_Witness ==
    \E p \in Mounted :
        /\ Settled /\ ops > 0
        /\ toast[p] \in {"liked", "unliked", "commented"}
        /\ ~card[p].countsLoading
        /\ card[p].likeCount = Cardinality(LikeRows(p))
        /\ card[p].commentCount = Cardinality(ActiveComments(p))
        /\ card[p].likeCount + card[p].commentCount > 0

\* a syncCounts of the card instance on screen has set countsLoading and
\* has not yet reached its finally block
SyncInFlight(p) ==
    \E t \in TaskSet :
        /\ t.post = p /\ Live(t)
        /\ t.kind \in {"sync", "like", "comment"}
        /\ t.pc \in {"L", "C", "R"}

\* C16: a card's countsLoading is true exactly while a syncCounts fetch of
\* that card is in flight, also when several syncCounts calls overlap.
C16_LoadingIffSyncInFlight ==
    \A p \in Mounted : card[p].countsLoading <=> SyncInFlight(p)

\* the card of p displays the counts the tables hold now
ShowsCurrent(p) ==
    /\ card[p].likeCount = Cardinality(LikeRows(p))
    /\ card[p].commentCount = Cardinality(ActiveComments(p))

\* C17: no guard orders the responses: when the response of a fetch that
\* read the counts before a later change is delivered to a card that already
\* displays the current counts (the response of a later fetch arrived
\* first), the card displays the older pair.
C17_LateResponseOverwrites ==
    [][\A t \in TaskSet :
        LET pair == getPostCounts(t.lc, t.cc) IN
        (/\ Fetching(t) /\ t.pc = "R" /\ Live(t) /\ Leaves(t)
         /\ faults = 0 /\ ShowsCurrent(t.post)
         /\ (pair.likeCount # Cardinality(LikeRows(t.post))
             \/ pair.commentCount # Cardinality(ActiveComments(t.post))))
            => /\ card'[t.post].likeCount = pair.likeCount
               /\ card'[t.post].commentCount = pair.commentCount]_vars

\* no request failed and the user did nothing, another client's like was
\* displayed by the subscription, and the response of the mount's
\* syncCounts, read before that like, has replaced it: the idle card shows
\* fewer likes than the table holds
C17_Witness ==
    \E p \in Mounted :
        /\ Settled /\ faults = 0 /\ ops > 0 /\ toast[p] = "none"
        /\ ~card[p].countsLoading
        /\ card[p].likeCount < Cardinality(LikeRows(p))
        /\ FeedEntry(p).like_count = card[p].likeCount

\* the card instance of p stays on screen in this step
Stays(p) ==
    card[p].mounted /\ card'[p].mounted /\ card'[p].inst = card[p].inst

C19_ResetHidesAccounts ==
    \A a \in Requests, b \in Requests :
        (/\ emailRegex(a) /\ emailRegex(b)
         /\ a \in {p.email : p \in profiles}
         /\ b \notin {p.email : p \in profiles}
         /\ response[a] # NoResponse /\ response[b] # NoResponse)
            => /\ response[a].status = response[b].status
               /\ response[a].body = response[b].body

\* the stored counts of p equal the numbers of its Like rows and of its
\* active Comment rows
StoredMatches(p) ==
    /\ postRow[p].like_count = Cardinality(LikeRows(p))
    /\ postRow[p].comment_count = Cardinality(ActiveComments(p))

\* C20: the result validatePostCounts is about to return has isValid = true
\* exactly when the stored counts equal the actual ones (compared while no
\* row has changed since the tables were set up), and never has isValid =
\* true when the like (comment) count query failed and the stored like
\* (comment) count differs from the actual one.
C20_ValidIffCountsMatch ==
    \A t \in TaskSet :
        (t.kind = "validate" /\ t.pc = "R")
            => /\ (ops = 0 /\ t.lc # null /\ t.cc # null)
                    => (validation(t).isValid <=> StoredMatches(t.post))
               /\ (t.lc = null /\ validation(t).isValid)
                    => postRow[t.post].like_count
                            = Cardinality(LikeRows(t.post))
               /\ (t.cc = null /\ validation(t).isValid)
                    => postRow[t.post].comment_count
                            = Cardinality(ActiveComments(t.post))

\* ------------------------------------------------------------------------
\* ToastManager (src/lib/toastUtils.ts)
\* ------------------------------------------------------------------------

\* calls of success, error and loading in one run
MaxCalls == 3

\* what the toast actions leave alone
toastFrame ==
    <<dbVars, feedVars, tasks, faults, limit, resetVars, confirmVars, batch,
      listVars, notifVars>>

\* the number of characters of the message that enter the id
sliceEnd == 50

ToastTypes == {"success", "error", "loading"}

\* fifty times the same character
Fifty == [i \in 1..sliceEnd |-> "a"]

\* two messages that differ only after their first fifty characters, and a
\* short one
Messages == {Fifty \o <<"x">>, Fifty \o <<"y">>, <<"b">>}

\* message.slice(0, 50)
slice(message) ==
    SubSeq(message, 1, IF Len(message) < sliceEnd THEN Len(message)
                       ELSE sliceEnd)

\* `${type}-${message.slice(0, 50)}`
generateToastId(message, type) == <<type, "-">> \o slice(message)

\* Set.has
hasNever(set, id) == FALSE
has(set, id) == id \in set

\* the while loop of processQueue from its head to the next await (a toast
\* was shown and the 100 ms timer is pending) or to its end
RECURSIVE whileLoop(_, _)
whileLoop(m, s) ==
    IF Len(m.toastQueue) = 0
    THEN [m |-> [m EXCEPT !.isProcessing = FALSE], s |-> s]
    ELSE LET toastItem == Head(m.toastQueue)
             rest == [m EXCEPT !.toastQueue = Tail(@)]
         IN  IF ~has(m.activeToasts, toastItem.id)
             THEN [m |-> [rest EXCEPT !.activeToasts = @ \cup {toastItem.id}],
                   s |-> s (+) SetToBag({toastItem.id})]
             ELSE whileLoop(rest, s)

\* processQueue up to its first await or its return
processQueue(m, s) ==
    IF m.isProcessing \/ Len(m.toastQueue) = 0
    THEN [m |-> m, s |-> s]
    ELSE whileLoop([m EXCEPT !.isProcessing = TRUE], s)

\* addToQueue(message, type): drop the call if the id is active, else push
\* and run processQueue
addToQueue(message, type) ==
    LET id == generateToastId(message, type)
        pushed == [toastManager EXCEPT !.toastQueue =
                        Append(@, [id |-> id, message |-> message,
                                   type |-> type])]
        after == IF has(toastManager.activeToasts, id)
                 THEN [m |-> toastManager, s |-> screen]
                 ELSE processQueue(pushed, screen)
    IN  /\ ops < MaxCalls
        /\ ops' = ops + 1
        /\ toastManager' = after.m
        /\ screen' = after.s
        /\ UNCHANGED toastFrame

success == \E message \in Messages : addToQueue(message, "success")

error == \E message \in Messages : addToQueue(message, "error")

loading == \E message \in Messages : addToQueue(message, "loading")

\* the 100 ms timer of processQueue fires: the loop goes on
QueueResume ==
    /\ toastManager.isProcessing
    /\ LET after == whileLoop(toastManager, screen) IN
            /\ toastManager' = after.m
            /\ screen' = after.s
    /\ UNCHANGED <<ops, toastFrame>>

\* the timer set when the toast was shown fires after the toast's duration:
\* the id is no longer active and the library has taken the toast down
ToastExpire(id) ==
    /\ id \in toastManager.activeToasts
    /\ toastManager' = [toastManager EXCEPT !.activeToasts = @ \ {id}]
    /\ screen' = screen (-) SetToBag({id})
    /\ UNCHANGED <<ops, toastFrame>>

ToastIds == {generateToastId(m, t) : m \in Messages, t \in ToastTypes}

InitToast == InitReset

NextToast ==
    \/ success
    \/ error
    \/ loading
    \/ QueueResume
    \/ \E id \in ToastIds : ToastExpire(id)

\* a timer that was set fires
SpecToast == InitToast /\ [][NextToast]_vars /\ WF_vars(QueueResume)

\* the manager is at rest
ToastIdle == ~toastManager.isProcessing /\ toastManager.toastQueue = <<>>

\* C21: no toast is displayed twice at a time and a toast is shown only
\* when its id (type and first fifty characters of the message) is not
\* active; outside the loop the queue is empty; and a running loop ends
\* with isProcessing false and the queue empty, every queued toast shown or
\* dropped.
C21_NoDuplicateToast ==
    /\ [](\A id \in ToastIds : CopiesIn(id, screen) <= 1)
    /\ [](~toastManager.isProcessing => toastManager.toastQueue = <<>>)
    /\ [][\A id \in ToastIds :
            CopiesIn(id, screen') > CopiesIn(id, screen)
                => ~(id \in toastManager.activeToasts)]_vars
    /\ (toastManager.isProcessing ~> ToastIdle)

\* both messages with the same first fifty characters were passed to
\* success while another toast held the loop; one was shown, the other
\* dropped as a duplicate, and the manager is at rest
C21_Witness ==
    /\ ToastIdle
    /\ ops = MaxCalls
    /\ CopiesIn(generateToastId(Fifty \o <<"x">>, "success"), screen) = 1
    /\ CopiesIn(generateToastId(<<"b">>, "success"), screen) = 1
    /\ BagCardinality(screen) = 2

\* ------------------------------------------------------------------------
\* batchUpdatePostCounts (src/lib/countUtils.ts)
\* ------------------------------------------------------------------------

\* ids passed to one batchUpdatePostCounts
MaxPostIds == 12

\* what the batch actions leave alone (the ids passed name no row of the
\* tables, so the count queries find nothing and the update writes nothing)
batchFrame ==
    <<dbVars, feedVars, tasks, ops, faults, limit, resetVars, confirmVars,
      toastVars, listVars, notifVars>>

batchSize == 10

\* postIds.slice(i, i + batchSize), as the positions i+1 .. i+batchSize of
\* the sequence
sliceAll(postIds, i) == (i + 1)..Len(postIds)
sliceBatch(postIds, i) ==
    {k \in 1..Len(postIds) : i < k /\ k <= i + batchSize}

\* the loop head: its test, and batch.map starting one updatePostCounts for
\* every id of the slice
forLoop(b, i) ==
    IF i < Len(b.postIds)
    THEN [b EXCEPT !.pc = "all", !.i = i,
                   !.pending = sliceBatch(b.postIds, i)]
    ELSE [b EXCEPT !.pc = "done", !.i = i]

\* a call batchUpdatePostCounts(postIds) up to its first await
batchUpdatePostCounts(postIds) ==
    /\ batch.pc = "idle"
    /\ batch' = forLoop([pc |-> "idle", postIds |-> postIds, i |-> 0,
                         pending |-> {}, results |-> <<>>], 0)
    /\ UNCHANGED batchFrame

\* the updatePostCounts of position k returns (the counts it read, or 0 and
\* 0 from its catch block): results.set(postId, counts)
BatchCallDone(k) ==
    /\ batch.pc = "all"
    /\ k \in batch.pending
    /\ \E ok \in BOOLEAN :
        LET id == batch.postIds[k]
            counts == IF ok
                      THEN getPostCounts(Cardinality(LikeRows(id)),
                                         Cardinality(ActiveComments(id)))
                      ELSE [likeCount |-> 0, commentCount |-> 0]
        IN  batch' = [batch EXCEPT
                        !.pending = @ \ {k},
                        !.results = [x \in DOMAIN @ \cup {id} |->
                                        IF x = id THEN counts ELSE @[x]]]
    /\ UNCHANGED batchFrame

\* Promise.all resolves: the delay between two batches starts, or the loop
\* ends and results is returned
BatchAllDone ==
    /\ batch.pc = "all"
    /\ batch.pending = {}
    /\ batch' = IF batch.i + batchSize < Len(batch.postIds)
                THEN [batch EXCEPT !.pc = "delay"]
                ELSE forLoop(batch, batch.i + batchSize)
    /\ UNCHANGED batchFrame

\* the 100 ms between two batches are over
BatchDelayDone ==
    /\ batch.pc = "delay"
    /\ batch' = forLoop(batch, batch.i + batchSize)
    /\ UNCHANGED batchFrame

InitBatch == InitReset

NextBatch ==
    \/ \E n \in 0..MaxPostIds : batchUpdatePostCounts([k \in 1..n |-> k])
    \/ \E k \in 1..MaxPostIds : BatchCallDone(k)
    \/ BatchAllDone
    \/ BatchDelayDone

SpecBatch == InitBatch /\ [][NextBatch]_vars

\* the positions whose updatePostCounts has returned
Completed == {k \in 1..Len(batch.postIds) :
                batch.postIds[k] \in DOMAIN batch.results}

\* C22: at most 10 updatePostCounts calls are in flight; while a call is in
\* flight every call of the batches before its own has returned and no call
\* of a later batch has started; the returned map has an entry for every
\* id passed.
C22_BatchesOfTen ==
    batch.pc # "idle" =>
        /\ Cardinality(batch.pending) <= 10
        /\ batch.pending \cap Completed = {}
        /\ \A k \in 1..Len(batch.postIds) :
            /\ k <= batch.i => k \in Completed /\ batch.i >= 10
            /\ k > batch.i + 10 => ~(k \in Completed \cup batch.pending)
        /\ batch.pc = "done" =>
            /\ batch.pending = {}
            /\ DOMAIN batch.results =
                    {batch.postIds[k] : k \in 1..Len(batch.postIds)}

\* more than ten ids were passed, the second batch is in flight and the
\* first has returned
C22_Witness ==
    /\ batch.pc = "all"
    /\ Len(batch.postIds) > 10
    /\ batch.i = 10
    /\ batch.pending # {}
    /\ \A k \in 1..10 : k \in Completed

MaxFeedOps == 3
MaxFeedTasks == 2

\* what the actions on the list leave alone
listFrame ==
    <<dbVars, notifications, card, channels, epoch, toast, raced, tasks,
      limit, resetVars, confirmVars, toastVars, batch, notifVars>>

\* the authors of posts: the user, somebody the user follows, somebody else
Authors == {"me", "friend", "stranger"}
\* follows?.map(f => f.following_id)
followingIds == {"friend"}
\* [...followingIds, profile.id]
userIds == followingIds \cup {currentUserId}

feedLimit == 30
ownLimit == 20

\* .order('created_at', { ascending: false }) of a list kept oldest first
RECURSIVE descending(_)
descending(rows) ==
    IF rows = <<>> THEN <<>>
    ELSE <<rows[Len(rows)]>> \o descending(SubSeq(rows, 1, Len(rows) - 1))

\* .limit(n)
limitRows(rows, n) == SubSeq(rows, 1, IF Len(rows) < n THEN Len(rows) ELSE n)

\* .in('author_id', ids) / .eq('author_id', id)
RECURSIVE authoredBy(_, _)
authoredBy(rows, ids) ==
    IF rows = <<>> THEN <<>>
    ELSE (IF Head(rows).author_id \in ids THEN <<Head(rows)>> ELSE <<>>)
            \o authoredBy(Tail(rows), ids)

\* the posts query of fetchFeed (lines 80-85) and the fallback query
\* (lines 155-160)
feedPostsQuery(table) ==
    limitRows(descending(authoredBy(table, userIds)), feedLimit)
ownPostsQuery(table) ==
    limitRows(descending(authoredBy(table, {currentUserId})), ownLimit)

\* the ids of a list of posts
Ids(list) == {list[i].id : i \in 1..Len(list)}

\* prev.filter(...)
RECURSIVE filterOut(_, _)
filterOut(list, ids) ==
    IF list = <<>> THEN <<>>
    ELSE (IF Head(list).id \in ids THEN <<>> ELSE <<Head(list)>>)
            \o filterOut(Tail(list), ids)

\* the updater of the fallback (lines 180-184): own posts that are not in
\* the list yet go in front of it
mergeOwnPostsReplacing(prev, transformedOwnPosts) == transformedOwnPosts
mergeOwnPosts(prev, transformedOwnPosts) ==
    filterOut(transformedOwnPosts, Ids(prev)) \o prev

FeedTask(pc, result) == [pc |-> pc, result |-> result]

FeedRoom ==
    /\ ops < MaxFeedOps
    /\ BagCardinality(fetches) < MaxFeedTasks

FeedOutcomes == IF faults < MaxFaults THEN BOOLEAN ELSE {TRUE}

Fault(ok) == IF ok THEN faults ELSE faults + 1

\* fetchFeed(true), from the mount effect, handleRefresh or the
\* refreshProfileCounts listener: setLoading(true), the follows query is
\* sent (the AbortController is handed to no query)
fetchFeed ==
    /\ FeedRoom
    /\ ops' = ops + 1
    /\ feedLoading' = TRUE
    /\ fetches' = Inc(fetches, FeedTask("follows", <<>>))
    /\ UNCHANGED <<posts, postTable, faults, listFrame>>

\* the follows query is answered: the posts query is sent, or the error is
\* thrown and the catch block sends the fallback query
FollowsAnswered(t) ==
    /\ t.pc = "follows"
    /\ \E ok \in FeedOutcomes :
        /\ fetches' = Move(fetches, t,
                [t EXCEPT !.pc = IF ok THEN "posts" ELSE "own"])
        /\ faults' = Fault(ok)
    /\ UNCHANGED <<posts, postTable, feedLoading, ops, listFrame>>

\* the backend evaluates the posts query
FeedPostsQuery(t) ==
    /\ t.pc = "posts"
    /\ \E ok \in FeedOutcomes :
        /\ fetches' = Move(fetches, t,
                IF ok THEN FeedTask("postsR", feedPostsQuery(postTable))
                ELSE FeedTask("postsE", <<>>))
        /\ faults' = Fault(ok)
    /\ UNCHANGED <<posts, postTable, feedLoading, ops, listFrame>>

\* the posts query is answered with rows (the profiles query that follows
\* only decorates them): setPosts(transformedPosts) when there are any,
\* nothing when there are none; finally setLoading(false)
FeedPostsAnswered(t) ==
    /\ t.pc = "postsR"
    /\ posts' = IF Len(t.result) > 0 THEN t.result ELSE posts
    /\ feedLoading' = FALSE
    /\ fetches' = Dec(fetches, t)
    /\ UNCHANGED <<postTable, ops, faults, listFrame>>

\* the posts query is answered with an error: the catch block sends the
\* fallback query
FeedPostsFailed(t) ==
    /\ t.pc = "postsE"
    /\ fetches' = Move(fetches, t, FeedTask("own", <<>>))
    /\ UNCHANGED <<posts, postTable, feedLoading, ops, faults, listFrame>>

\* the backend evaluates the fallback query
OwnPostsQuery(t) ==
    /\ t.pc = "own"
    /\ \E ok \in FeedOutcomes :
        /\ fetches' = Move(fetches, t,
                IF ok THEN FeedTask("ownR", ownPostsQuery(postTable))
                ELSE FeedTask("ownE", <<>>))
        /\ faults' = Fault(ok)
    /\ UNCHANGED <<posts, postTable, feedLoading, ops, listFrame>>

\* the fallback query is answered: the merge, or the error toast; finally
\* setLoading(false)
OwnPostsAnswered(t) ==
    /\ t.pc \in {"ownR", "ownE"}
    /\ posts' = IF t.pc = "ownR" THEN mergeOwnPosts(posts, t.result)
                ELSE posts
    /\ feedLoading' = FALSE
    /\ fetches' = Dec(fetches, t)
    /\ UNCHANGED <<postTable, ops, faults, listFrame>>

\* the row a new post gets
NewRow(author) == [id |-> Len(postTable) + 1, author_id |-> author]

\* CreatePost.handleSubmit: the backend executes the insert, the row goes to
\* the submitter as the answer and to the Feed's channel as an INSERT event
\* (the subscription of lines 300-322 has no filter); or the insert fails
handleSubmit ==
    /\ ~feedLoading
    /\ ops < MaxFeedOps
    /\ BagCardinality(fetches) + 2 <= MaxFeedTasks
    /\ ops' = ops + 1
    /\ \E ok \in FeedOutcomes :
        /\ faults' = Fault(ok)
        /\ IF ok
           THEN LET row == NewRow(currentUserId) IN
                /\ postTable' = Append(postTable, row)
                /\ fetches' = Inc(Inc(fetches, FeedTask("created", <<row>>)),
                                  FeedTask("event", <<row>>))
           ELSE UNCHANGED <<postTable, fetches>>
    /\ UNCHANGED <<posts, feedLoading, listFrame>>

\* onPostCreated(post) of CreatePost: handlePostCreated
handlePostCreated(t) ==
    /\ t.pc = "created"
    /\ posts' = t.result \o posts
    /\ fetches' = Dec(fetches, t)
    /\ UNCHANGED <<postTable, feedLoading, ops, faults, listFrame>>

\* somebody else inserts a post: the INSERT event goes to the Feed's channel
RemotePost(author) ==
    /\ FeedRoom
    /\ ops' = ops + 1
    /\ postTable' = Append(postTable, NewRow(author))
    /\ fetches' = Inc(fetches, FeedTask("event", <<NewRow(author)>>))
    /\ UNCHANGED <<posts, feedLoading, faults, listFrame>>

\* the callback of the realtime subscription: the new row goes on top
FeedInsertEvent(t) ==
    /\ t.pc = "event"
    /\ posts' = t.result \o posts
    /\ fetches' = Dec(fetches, t)
    /\ UNCHANGED <<postTable, feedLoading, ops, faults, listFrame>>

\* PostCard.handleDeletePost of an own post on screen: the update of
\* is_active is sent (no query of the Feed reads is_active)
DeletePost(id) ==
    /\ ~feedLoading
    /\ FeedRoom
    /\ \E i \in 1..Len(posts) :
            posts[i].id = id /\ posts[i].author_id = currentUserId
    /\ ops' = ops + 1
    /\ fetches' = Inc(fetches, FeedTask("deleted", <<id>>))
    /\ UNCHANGED <<posts, postTable, feedLoading, faults, listFrame>>

\* the update is answered (its error is not looked at): onPostDeleted,
\* handlePostDeleted
handlePostDeleted(t) ==
    /\ t.pc = "deleted"
    /\ posts' = filterOut(posts, {t.result[1]})
    /\ fetches' = Dec(fetches, t)
    /\ UNCHANGED <<postTable, feedLoading, ops, faults, listFrame>>

\* the Feed has mounted: no post in the list, the spinner shown, the
\* fetchFeed(true) of the mount effect in flight
InitFeed ==
    /\ likes = {}
    /\ comments = {}
    /\ postRow = [p \in Posts |-> [like_count |-> 0, comment_count |-> 0]]
    /\ notifications = [p \in Posts |-> [like |-> 0, comment |-> 0]]
    /\ posts = <<>>
    /\ card = [p \in Posts |-> NoCard]
    /\ channels = {}
    /\ epoch = [p \in Posts |-> 0]
    /\ toast = [p \in Posts |-> "none"]
    /\ raced = FALSE
    /\ tasks = EmptyBag
    /\ ops = 0
    /\ faults = 0
    /\ limit = CountsLimit
    /\ ResetIdle
    /\ passwords = [u \in Users |-> 0]
    /\ resets = EmptyBag
    /\ toastManager = [activeToasts |-> {}, toastQueue |-> <<>>,
                       isProcessing |-> FALSE]
    /\ screen = EmptyBag
    /\ batch = [pc |-> "idle"]
    /\ notifTable = {}
    /\ notifs = [notifications |-> <<>>, unreadCount |-> 0,
                 loading |-> TRUE]
    /\ notifTasks = EmptyBag
    /\ postTable \in {<<>>,
                      <<[id |-> 1, author_id |-> "me"]>>,
                      <<[id |-> 1, author_id |-> "friend"],
                        [id |-> 2, author_id |-> "me"]>>}
    /\ fetches = SetToBag({FeedTask("follows", <<>>)})
    /\ feedLoading = TRUE

FeedTasks == BagToSet(fetches)

NextFeed ==
    \/ fetchFeed
    \/ handleSubmit
    \/ \E a \in Authors \ {currentUserId} : RemotePost(a)
    \/ \E id \in Ids(posts) : DeletePost(id)
    \/ \E t \in FeedTasks :
        \/ FollowsAnswered(t)
        \/ FeedPostsQuery(t)
        \/ FeedPostsAnswered(t)
        \/ FeedPostsFailed(t)
        \/ OwnPostsQuery(t)
        \/ OwnPostsAnswered(t)
        \/ handlePostCreated(t)
        \/ FeedInsertEvent(t)
        \/ handlePostDeleted(t)

SpecFeed == InitFeed /\ [][NextFeed]_vars

\* every entry of list a is an entry of list b, as often
KeptIn(a, b) ==
    \A x \in {a[i] : i \in 1..Len(a)} :
        Cardinality({i \in 1..Len(a) : a[i] = x})
            <= Cardinality({i \in 1..Len(b) : b[i] = x})

\* C24: the answer of a fetchFeed that found no post leaves the list as it
\* is; the answer of the fallback query removes no post, keeps the list as
\* the tail of the new list and puts in front of it only posts whose id was
\* not in the list.
C24_EmptyAndFallbackKeepPosts ==
    [][\A t \in FeedTasks :
        /\ (t.pc = "postsR" /\ t.result = <<>>
            /\ CopiesIn(t, fetches') < CopiesIn(t, fetches)) =>
                posts' = posts
        /\ (t.pc \in {"ownR", "ownE"}
            /\ CopiesIn(t, fetches') < CopiesIn(t, fetches)) =>
            /\ KeptIn(posts, posts')
            /\ Len(posts') >= Len(posts)
            /\ SubSeq(posts', Len(posts') - Len(posts) + 1, Len(posts'))
                    = posts
            /\ \A i \in 1..(Len(posts') - Len(posts)) :
                    /\ ~(posts'[i].id \in Ids(posts))
                    /\ posts'[i].author_id = currentUserId]_vars

\* a fallback has merged an own post in front of a post that was in the list
C24_Witness ==
    /\ fetches = EmptyBag
    /\ faults = 1
    /\ Len(posts) = 2
    /\ posts[1].author_id = "me"
    /\ posts[2].author_id = "stranger"

\* C25: no two entries of the list have the same id.
C25_NoDuplicateIds ==
    \A i, j \in 1..Len(posts) : posts[i].id = posts[j].id => i = j

\* ------------------------------------------------------------------------
\* Notifications (src/components/Notifications.tsx)
\* ------------------------------------------------------------------------

\* clicks and notifications of others in one run, handlers and callbacks of
\* the component in flight at a time, rows of the table
MaxNotifOps == 3
MaxNotifTasks == 2
MaxNotifs == 3

\* what the actions of the component leave alone
notifFrame ==
    <<dbVars, feedVars, tasks, limit, resetVars, confirmVars, toastVars,
      batch, listVars>>

pageLimit == 50

NotifIds == 1..MaxNotifs

\* the rows of a set, newest (highest id) first, at most n of them:
\* .order('created_at', { ascending: false }).limit(n)
RECURSIVE newestFirst(_, _)
newestFirst(rows, n) ==
    IF rows = {} \/ n = 0 THEN <<>>
    ELSE LET r == CHOOSE x \in rows : \A y \in rows : y.id <= x.id
         IN  <<r>> \o newestFirst(rows \ {r}, n - 1)

\* transformedNotifications.filter(n => !n.is_read).length
RECURSIVE unreadOf(_)
unreadOf(list) ==
    IF list = <<>> THEN 0
    ELSE (IF Head(list).is_read THEN 0 ELSE 1) + unreadOf(Tail(list))

\* prev.map(n => n.id === notificationId ? { ...n, is_read: true } : n)
markRead(list, id) ==
    [i \in 1..Len(list) |->
        IF list[i].id = id THEN [list[i] EXCEPT !.is_read = TRUE]
        ELSE list[i]]

\* prev.map(n => ({ ...n, is_read: true }))
markAllRead(list) ==
    [i \in 1..Len(list) |-> [list[i] EXCEPT !.is_read = TRUE]]

\* Math.max(0, prev - 1)
decrement(prev) == IF prev - 1 > 0 THEN prev - 1 ELSE 0

NotifTask(kind, pc, id, result, unread) ==
    [kind |-> kind, pc |-> pc, id |-> id, result |-> result,
     unread |-> unread]

NotifRoom ==
    /\ ops < MaxNotifOps
    /\ BagCardinality(notifTasks) < MaxNotifTasks

\* a handler can be started from the list: the spinner is not shown
Clickable == ~notifs.loading

\* the ids in use: of the rows, of the entries of the list and of the
\* handlers in flight (a new row gets the next id)
KnownIds ==
    LET used == {r.id : r \in notifTable}
                \cup {notifs.notifications[i].id :
                        i \in 1..Len(notifs.notifications)}
                \cup {t.id : t \in BagToSet(notifTasks)}
    IN  {j \in NotifIds : \E k \in used : j <= k}

\* the backend evaluates the query of fetchNotifications
NotificationsQuery(t) ==
    /\ t.kind = "fetch" /\ t.pc = "Q"
    /\ \E ok \in FeedOutcomes :
        /\ notifTasks' = Move(notifTasks, t,
                IF ok
                THEN [t EXCEPT !.pc = "R",
                               !.result = newestFirst(notifTable, pageLimit)]
                ELSE [t EXCEPT !.pc = "E"])
        /\ faults' = Fault(ok)
    /\ UNCHANGED <<notifTable, notifs, ops, notifFrame>>

\* fetchNotifications goes on after its query (the profiles query only
\* decorates the rows): the list and the count are set from the rows, or
\* cleared in the catch block; finally setLoading(false)
NotificationsAnswered(t) ==
    /\ t.kind = "fetch" /\ t.pc \in {"R", "E"}
    /\ notifs' = IF t.pc = "R" /\ Len(t.result) > 0
                 THEN [notifications |-> t.result,
                       unreadCount |-> unreadOf(t.result),
                       loading |-> FALSE]
                 ELSE [notifications |-> <<>>, unreadCount |-> 0,
                       loading |-> FALSE]
    /\ notifTasks' = Dec(notifTasks, t)
    /\ UNCHANGED <<notifTable, ops, faults, notifFrame>>

\* somebody's like, comment or follow inserts a notification for the user:
\* the INSERT event calls fetchNewNotification(payload.new.id)
RemoteNotification ==
    /\ NotifRoom
    /\ \E id \in NotifIds :
        /\ id = 1 + Cardinality(KnownIds)
        /\ notifTable' = notifTable \cup {[id |-> id, is_read |-> FALSE]}
        /\ notifTasks' = Inc(notifTasks,
                             NotifTask("new", "Q", id, <<>>, FALSE))
    /\ ops' = ops + 1
    /\ UNCHANGED <<notifs, faults, notifFrame>>

\* the backend evaluates the select of fetchNewNotification: .single() is
\* an error when the row is gone
NewNotificationQuery(t) ==
    /\ t.kind = "new" /\ t.pc = "Q"
    /\ \E ok \in FeedOutcomes :
        LET rows == {r \in notifTable : r.id = t.id} IN
        /\ notifTasks' = Move(notifTasks, t,
                IF ok /\ rows # {}
                THEN [t EXCEPT !.pc = "R",
                               !.result = newestFirst(rows, 1)]
                ELSE [t EXCEPT !.pc = "E"])
        /\ faults' = Fault(ok)
    /\ UNCHANGED <<notifTable, notifs, ops, notifFrame>>

\* fetchNewNotification goes on: the row goes on top and the count goes up
NewNotificationAnswered(t) ==
    /\ t.kind = "new" /\ t.pc \in {"R", "E"}
    /\ notifs' = IF t.pc = "R"
                 THEN [notifs EXCEPT
                        !.notifications = t.result \o @,
                        !.unreadCount = @ + 1]
                 ELSE notifs
    /\ notifTasks' = Dec(notifTasks, t)
    /\ UNCHANGED <<notifTable, ops, faults, notifFrame>>

\* the "mark as read" button of an unread entry is clicked
markAsRead(id) ==
    /\ Clickable /\ NotifRoom
    /\ \E i \in 1..Len(notifs.notifications) :
            notifs.notifications[i].id = id
            /\ ~notifs.notifications[i].is_read
    /\ notifTasks' = Inc(notifTasks, NotifTask("read", "W", id, <<>>, FALSE))
    /\ ops' = ops + 1
    /\ UNCHANGED <<notifTable, notifs, faults, notifFrame>>

\* the backend executes update ... set is_read = true where id = ...
MarkAsReadWrite(t) ==
    /\ t.kind = "read" /\ t.pc = "W"
    /\ \E ok \in FeedOutcomes :
        /\ notifTable' = IF ok
                THEN {IF r.id = t.id THEN [r EXCEPT !.is_read = TRUE] ELSE r :
                        r \in notifTable}
                ELSE notifTable
        /\ notifTasks' = Move(notifTasks, t,
                              [t EXCEPT !.pc = IF ok THEN "R" ELSE "E"])
        /\ faults' = Fault(ok)
    /\ UNCHANGED <<notifs, ops, notifFrame>>

\* markAsRead goes on after its update
MarkAsReadAnswered(t) ==
    /\ t.kind = "read" /\ t.pc \in {"R", "E"}
    /\ notifs' = IF t.pc = "R"
                 THEN [notifs EXCEPT
                        !.notifications = markRead(@, t.id),
                        !.unreadCount = decrement(@)]
                 ELSE notifs
    /\ notifTasks' = Dec(notifTasks, t)
    /\ UNCHANGED <<notifTable, ops, faults, notifFrame>>

\* the "mark all as read" button, shown while unreadCount > 0, is clicked
markAllAsRead ==
    /\ Clickable /\ NotifRoom
    /\ notifs.unreadCount > 0
    /\ notifTasks' = Inc(notifTasks, NotifTask("all", "W", 0, <<>>, FALSE))
    /\ ops' = ops + 1
    /\ UNCHANGED <<notifTable, notifs, faults, notifFrame>>

\* the backend executes update ... set is_read = true where is_read = false
MarkAllWrite(t) ==
    /\ t.kind = "all" /\ t.pc = "W"
    /\ \E ok \in FeedOutcomes :
        /\ notifTable' = IF ok
                THEN {[r EXCEPT !.is_read = TRUE] : r \in notifTable}
                ELSE notifTable
        /\ notifTasks' = Move(notifTasks, t,
                              [t EXCEPT !.pc = IF ok THEN "R" ELSE "E"])
        /\ faults' = Fault(ok)
    /\ UNCHANGED <<notifs, ops, notifFrame>>

\* markAllAsRead goes on after its update
MarkAllAnswered(t) ==
    /\ t.kind = "all" /\ t.pc \in {"R", "E"}
    /\ notifs' = IF t.pc = "R"
                 THEN [notifs EXCEPT
                        !.notifications = markAllRead(@),
                        !.unreadCount = 0]
                 ELSE notifs
    /\ notifTasks' = Dec(notifTasks, t)
    /\ UNCHANGED <<notifTable, ops, faults, notifFrame>>

\* the delete button of an entry is clicked; the handler keeps the
\* `notifications` of the render it was created in, in which it will look
\* the entry up after the delete (line 272)
deleteNotification(id) ==
    /\ Clickable /\ NotifRoom
    /\ \E i \in 1..Len(notifs.notifications) :
        /\ notifs.notifications[i].id = id
        /\ \A j \in 1..(i - 1) : notifs.notifications[j].id # id
        /\ notifTasks' = Inc(notifTasks,
                NotifTask("delete", "W", id, <<>>,
                          ~notifs.notifications[i].is_read))
    /\ ops' = ops + 1
    /\ UNCHANGED <<notifTable, notifs, faults, notifFrame>>

\* the backend executes delete ... where id = ...
DeleteNotificationWrite(t) ==
    /\ t.kind = "delete" /\ t.pc = "W"
    /\ \E ok \in FeedOutcomes :
        /\ notifTable' = IF ok THEN {r \in notifTable : r.id # t.id}
                         ELSE notifTable
        /\ notifTasks' = Move(notifTasks, t,
                              [t EXCEPT !.pc = IF ok THEN "R" ELSE "E"])
        /\ faults' = Fault(ok)
    /\ UNCHANGED <<notifs, ops, notifFrame>>

\* deleteNotification goes on after its delete
DeleteNotificationAnswered(t) ==
    /\ t.kind = "delete" /\ t.pc \in {"R", "E"}
    /\ notifs' = IF t.pc = "R"
                 THEN [notifs EXCEPT
                        !.notifications = filterOut(@, {t.id}),
                        !.unreadCount =
                            IF t.unread THEN decrement(@) ELSE @]
                 ELSE notifs
    /\ notifTasks' = Dec(notifTasks, t)
    /\ UNCHANGED <<notifTable, ops, faults, notifFrame>>

\* the component has mounted: the fetchNotifications of the effect is in
\* flight, the spinner is shown, the subscription is set up
InitNotif ==
    /\ likes = {}
    /\ comments = {}
    /\ postRow = [p \in Posts |-> [like_count |-> 0, comment_count |-> 0]]
    /\ FeedIdle
    /\ tasks = EmptyBag
    /\ ops = 0
    /\ faults = 0
    /\ limit = CountsLimit
    /\ ResetIdle
    /\ passwords = [u \in Users |-> 0]
    /\ resets = EmptyBag
    /\ toastManager = [activeToasts |-> {}, toastQueue |-> <<>>,
                       isProcessing |-> FALSE]
    /\ screen = EmptyBag
    /\ batch = [pc |-> "idle"]
    /\ postTable = <<>>
    /\ fetches = EmptyBag
    /\ feedLoading = TRUE
    /\ notifTable \in {{},
                       {[id |-> 1, is_read |-> FALSE]},
                       {[id |-> 1, is_read |-> TRUE],
                        [id |-> 2, is_read |-> FALSE]},
                       {[id |-> 1, is_read |-> FALSE],
                        [id |-> 2, is_read |-> FALSE]}}
    /\ notifs = [notifications |-> <<>>, unreadCount |-> 0,
                 loading |-> TRUE]
    /\ notifTasks = SetToBag({NotifTask("fetch", "Q", 0, <<>>, FALSE)})

NotifTaskSet == BagToSet(notifTasks)

NextNotif ==
    \/ RemoteNotification
    \/ \E id \in NotifIds : markAsRead(id)
    \/ markAllAsRead
    \/ \E id \in NotifIds : deleteNotification(id)
    \/ \E t \in NotifTaskSet :
        \/ NotificationsQuery(t)
        \/ NotificationsAnswered(t)
        \/ NewNotificationQuery(t)
        \/ NewNotificationAnswered(t)
        \/ MarkAsReadWrite(t)
        \/ MarkAsReadAnswered(t)
        \/ MarkAllWrite(t)
        \/ MarkAllAnswered(t)
        \/ DeleteNotificationWrite(t)
        \/ DeleteNotificationAnswered(t)

SpecNotif == InitNotif /\ [][NextNotif]_vars

\* C26: unreadCount is the number of entries of the list with is_read =
\* false.
C26_UnreadCountMatchesList ==
    notifs.unreadCount = unreadOf(notifs.notifications)

\* ------------------------------------------------------------------------
\* Password reset with a token (src/unnamed/part_004, the endpoint, and
\* src/unnamed/part_010 resetPasswordWithToken: the same three requests)
\* ------------------------------------------------------------------------

\* requests presenting a token in one run
MaxResets == 2

\* what the requests leave alone
confirmFrame ==
    <<dbVars, feedVars, tasks, limit, outbox, response, toastVars, batch,
      listVars, notifVars>>

\* the tokens presented: none, the two that were mailed, one never issued
Presented == 0..(MaxTokens + 1)

ResetTask(pc, token, tokenData, status) ==
    [pc |-> pc, token |-> token, tokenData |-> tokenData, status |-> status]

\* .eq('token_hash', hash).eq('used', false).gt('expires_at', now)
tokenQuery(hash) ==
    {row \in resetTokens :
        row.token_hash = hash /\ ~row.used /\ ~row.expired}

\* a request arrives with a token and a new password; without a token it is
\* answered 400, else the token is hashed and the select is sent
resetPasswordWithToken(token) ==
    /\ ops < MaxResets
    /\ ops' = ops + 1
    /\ resets' = Inc(resets,
            IF token = 0 THEN ResetTask("done", token, <<>>, 400)
            ELSE ResetTask("select", token, <<>>, 0))
    /\ UNCHANGED <<resetTokens, passwords, faults, confirmFrame>>

\* the backend evaluates the select; .single() is an error unless exactly
\* one row matches: 400, else the password update is sent
TokenSelect(t) ==
    /\ t.pc = "select"
    /\ \E ok \in FeedOutcomes :
        LET rows == tokenQuery(sha256(t.token)) IN
        /\ resets' = Move(resets, t,
                IF ok /\ Cardinality(rows) = 1
                THEN ResetTask("password", t.token,
                               <<CHOOSE row \in rows : TRUE>>, 0)
                ELSE ResetTask("done", t.token, <<>>, 400))
        /\ faults' = Fault(ok)
    /\ UNCHANGED <<resetTokens, passwords, ops, confirmFrame>>

\* auth.admin.updateUserById(tokenData.user_id, { password }) is executed:
\* the password changes and the update that marks the token is sent, or 500
PasswordUpdate(t) ==
    /\ t.pc = "password"
    /\ \E ok \in FeedOutcomes :
        /\ passwords' = IF ok
                THEN [passwords EXCEPT ![t.tokenData[1].user_id] = @ + 1]
                ELSE passwords
        /\ resets' = Move(resets, t,
                IF ok THEN [t EXCEPT !.pc = "used"]
                ELSE ResetTask("done", t.token, <<>>, 500))
        /\ faults' = Fault(ok)
    /\ UNCHANGED <<resetTokens, ops, confirmFrame>>

\* update({ used: true }).eq('id', tokenData.id) is executed (its error is
\* not looked at): 200
MarkUsed(t) ==
    /\ t.pc = "used"
    /\ \E ok \in FeedOutcomes :
        /\ resetTokens' = IF ok
                THEN {IF row.token_hash = t.tokenData[1].token_hash
                      THEN [row EXCEPT !.used = TRUE] ELSE row :
                        row \in resetTokens}
                ELSE resetTokens
        /\ faults' = Fault(ok)
    /\ resets' = Move(resets, t, ResetTask("done", t.token, <<>>, 200))
    /\ UNCHANGED <<passwords, ops, confirmFrame>>

\* the hour of a token is over: expires_at is no longer ahead of now
TokenExpires(row) ==
    /\ row \in resetTokens
    /\ ~row.expired
    /\ resetTokens' = (resetTokens \ {row})
                        \cup {[row EXCEPT !.expired = TRUE]}
    /\ UNCHANGED <<passwords, resets, ops, faults, confirmFrame>>

\* a token row as the request for a reset inserts it
TokenRow(user, token) ==
    [user_id |-> user, token_hash |-> sha256(token), used |-> FALSE,
     expired |-> FALSE]

\* one reset was requested for the user, or one for each of two users: the
\* tokens are stored and mailed, no request has presented one
InitConfirm ==
    /\ likes = {}
    /\ comments = {}
    /\ postRow = [p \in Posts |-> [like_count |-> 0, comment_count |-> 0]]
    /\ FeedIdle
    /\ tasks = EmptyBag
    /\ ops = 0
    /\ faults = 0
    /\ limit = CountsLimit
    /\ AppIdle
    /\ \E issued \in {{"me"}, {"me", "other"}} :
        LET token(u) == IF u = "me" THEN 1 ELSE 2
            mail(u) == (CHOOSE p \in profiles : p.id = u).email
        IN  /\ resetTokens = {TokenRow(u, token(u)) : u \in issued}
            /\ outbox = {[to |-> mail(u), token |-> token(u)] : u \in issued}
            /\ response = [r \in Requests |->
                    IF \E u \in issued : mail(u) = r THEN json(200, Sent)
                    ELSE NoResponse]

NextConfirm ==
    \/ \E token \in Presented : resetPasswordWithToken(token)
    \/ \E row \in resetTokens : TokenExpires(row)
    \/ \E t \in BagToSet(resets) :
        \/ TokenSelect(t)
        \/ PasswordUpdate(t)
        \/ MarkUsed(t)

SpecConfirm == InitConfirm /\ [][NextConfirm]_vars

\* C27: the requests presenting a token change the password at most once:
\* the number of password updates of a user never exceeds the number of
\* tokens issued for the user.
C27_TokenChangesPasswordOnce ==
    \A u \in Users :
        passwords[u] <= Cardinality({row \in resetTokens : row.user_id = u})

====
